---- MODULE Spec2Model ----
(***************************************************************************)
(* State-machine model of the EUR/CAD trading bot: the RiskManager        *)
(* ledger and approval gate, the EmergencyStopSystem, the bot's trading   *)
(* cycle, and the Backtester's bar-by-bar simulation.                     *)
(*                                                                        *)
(* Numbers. Python floats are modelled exactly:                           *)
(*  - account money (capital, pnl) is a whole number of dollars;          *)
(*  - fractions from config.py are written in per-mille (0.01 -> 10);     *)
(*  - a risk amount is kept in milli-dollars, so capital * 0.01 is the    *)
(*    integer capital * 10 and no comparison needs a division;            *)
(*  - current_drawdown is the exact fraction <<numerator, denominator>>.  *)
(*  - the Backtester's prices are whole ticks of 0.00001 and its money is *)
(*    an exact fraction <<numerator, denominator>> in lowest terms.       *)
(***************************************************************************)
EXTENDS Integers, Sequences, FiniteSets, TLC

(***************************************************************************)
(* config/config.py                                                       *)
(***************************************************************************)
INITIAL_CAPITAL == 1000
MAX_RISK_PER_TRADE == 10
MAX_DRAWDOWN == 120
MAX_DAILY_LOSS == 30
MAX_CONCURRENT_TRADES == 3
MAX_DAILY_TRADES == 10
MAX_TOTAL_PORTFOLIO_RISK == 50
MAX_CONSECUTIVE_LOSSES == 5
HALT_ON_DRAWDOWN == 150
MEAN_REVERSION_RISK == 10
TREND_FOLLOWING_RISK == 15
GRID_TRADING_RISK == 8
MIN_TRADE_UNITS == 20000
API_ERROR_LIMIT == 3
\* Backtester: ticks in a pip (EURCAD_PIP_VALUE = 0.0001), the default
\* commission in tenths of a pip (0.6), the bars skipped for the indicators,
\* the risk per trade in per-cent of capital, and the age of the time exit.
EURCAD_PIP_VALUE == 10
BACKTEST_COMMISSION_PIPS == 6
WARMUP_BARS == 100
BACKTEST_RISK_PERCENT == 1
TIME_EXIT_BARS == 48

(***************************************************************************)
(* Bounds of the model and the inputs the environment may supply.         *)
(***************************************************************************)
MaxCloses == 5
MaxOrders == 3
\* Orders of a client that trades break-even all day: enough to reach
\* MAX_DAILY_TRADES registrations.
MaxBusyOrders == 10
MaxResets == 1
\* close_position calls of a client that also starts new trading days.
MaxDayCloses == 3
MaxApiErrors == 151

\* Capital the bot is started with: large enough for an order to reach the
\* minimum trade size of process_signal (the configured default is not).
InitialCapitals == {400000}
\* A capital that three losses of 1000 bring to the daily loss limit exactly.
BoundaryCapitals == {103000}
\* max_risk_per_trade (per-mille) a client passes to the RiskManager constructor;
\* the bot passes none and gets config.MAX_RISK_PER_TRADE.
MaxRiskPerTradeArgs == {30}
\* pnl arguments of close_position, in dollars.
PnlChoices == {-300000, -1000, 0, 2000}
\* risk_amount arguments of a client's can_open_position call, in milli-dollars
\* (the bot itself always asks for capital * params.risk).
RiskAmounts == {3000000, 10000000}
\* Entry price of a signal in pips (1.4500) and its stop distances in pips.
EntryPips == 14500
StopDistances == {0, 25}

\* Bars of a backtest after the warm-up that may carry signals and move the
\* price (the bars after them are quiet): in a short frame, and in a frame
\* long enough to reach the time exit. Then the ticks in one unit of price.
BacktestBars == 3
LongFrameBusyBars == 1
TicksPerUnit == 100000
\* Constructor arguments of the Backtester (0 stands for None or zero, which
\* the constructor replaces by the configured default): dollars, and tenths
\* of a pip.
BacktestCapitalArgs == {0, 500}
CommissionPipsArgs == {0, 12}
\* What strategy.calculate_entry_exit may return for a long and for a short
\* signal: nothing, or prices in ticks (one of them with stop = entry).
NoEntryData == [none |-> TRUE, entry |-> 0, stop_loss |-> 0, take_profit_1 |-> 0]
EntryDataChoices(signal_type) ==
    IF signal_type = "long"
    THEN { NoEntryData,
           [none |-> FALSE, entry |-> 200000, stop_loss |-> 199994, take_profit_1 |-> 200066],
           [none |-> FALSE, entry |-> 200000, stop_loss |-> 200000, take_profit_1 |-> 200066] }
    ELSE { NoEntryData,
           [none |-> FALSE, entry |-> 200000, stop_loss |-> 200006, take_profit_1 |-> 199934] }
\* Price ranges of a bar of the test frame, in ticks: a quiet bar, a bar
\* drifting up, a fall, a rise, and a bar that does both.
QuietBar == [low |-> 199996, high |-> 200004, close |-> 200000]
BarPrices == { QuietBar,
               [low |-> 199996, high |-> 200004, close |-> 200003],
               [low |-> 199930, high |-> 200004, close |-> 199992],
               [low |-> 199996, high |-> 200070, close |-> 200010],
               [low |-> 199930, high |-> 200070, close |-> 200000] }
NoSignals == [long_signal |-> FALSE, short_signal |-> FALSE]
\* current_bar before the first iteration.
NoBar == [low |-> 0, high |-> 0, close |-> 0,
          long_signal |-> FALSE, short_signal |-> FALSE]
BarSignals == { NoSignals,
                [long_signal |-> TRUE, short_signal |-> FALSE],
                [long_signal |-> FALSE, short_signal |-> TRUE],
                [long_signal |-> TRUE, short_signal |-> TRUE] }
\* len(df_test) of a long frame: a position opened in its last busy bar
\* reaches the time exit.
LongFrameLength == WARMUP_BARS + LongFrameBusyBars + TIME_EXIT_BARS + 1
\* len(df_test): too short, warm-up only, a short frame, or a long one.
FrameLengths == { WARMUP_BARS - 1, WARMUP_BARS, WARMUP_BARS + BacktestBars,
                  LongFrameLength }
\* The frames of a backtest: the first bars after the warm-up are arbitrary,
\* the rest are quiet bars without signals.
BusyBars(len) == IF len = LongFrameLength THEN LongFrameBusyBars ELSE BacktestBars
PricesAt(index, len) ==
    IF index < WARMUP_BARS + BusyBars(len) THEN BarPrices ELSE {QuietBar}
SignalsAt(index, len) ==
    IF index < WARMUP_BARS + BusyBars(len) THEN BarSignals ELSE {NoSignals}

\* ---- walk_forward_analysis (dates are days since df.index[0]) ----
BACKTEST_TRAIN_PERIOD_MONTHS == 6
BACKTEST_TEST_PERIOD_MONTHS == 1
DAYS_PER_MONTH == 30
\* df.index[0]
WalkStartDate == 0
\* df.index[-1]
WalkEndDates == {130, 240}
\* train_period_months, test_period_months: 0 stands for None
TrainPeriodArgs == {0, 2}
TestPeriodArgs == {0, 2}
\* Busy bars after the warm-up in the frame of one walk-forward window.
WalkForwardBars == 1
\* len(df_test) of a walk-forward window: too short, or a short frame.
WalkFrameLengths == { WARMUP_BARS - 1, WARMUP_BARS + WalkForwardBars }
NoWindow == [train_start |-> 0, train_end |-> 0, test_start |-> 0, test_end |-> 0]

\* ---- IBKRConnector ----
max_reconnect_attempts == 5
\* connect() calls of reconnect() that fail in a row, at most.
MaxConnects == 7
\* What a connect() call meets: ib.connect raises ("refused"); everything
\* works ("connected"); ib.connect works and the contract setup raises, with
\* the socket still up ("setup_failed") or lost ("setup_dropped").
ConnectOutcomes == {"refused", "connected", "setup_failed", "setup_dropped"}

\* ---- update_trailing_stop ----
TRAILING_STOP_ATR_MULTIPLE == 3
\* position['stop_loss'] when the position is registered.
TrailStops == {14470, 14530}
\* df['close'].iloc[-1] and df['ATR'].iloc[-1] of a call (NaN: -1).
TrailCloses == {14480, 14500, 14530}
TrailAtrs == {-1, 0, 10}
TrailCalls == [has_atr : BOOLEAN, close : TrailCloses, atr : TrailAtrs]
NoTrailCall == [has_atr |-> FALSE, close |-> 0, atr |-> 0]
NoInstruction == [order_id |-> 0, new_stop_price |-> 0]

NoneStr == "None"
NoRequest == [strategy |-> NoneStr, allowed |-> FALSE, reason |-> NoneStr]

VARIABLES
    program,             \* what drives the objects: "bot" (the main loop of bot.py),
                         \* "api" (a client calling the RiskManager directly),
                         \* "day" (such a client that also starts new trading days)
                         \* "busy" (such a client that opens positions and closes
                         \* them break-even, up to the daily trade limit)
                         \* "backtest" (a run of the Backtester),
                         \* "walkforward" (a walk-forward analysis),
                         \* "regime" (calls of the MarketRegimeDetector),
                         \* "connector" (calls of the IBKRConnector) or
                         \* "trailing" (calls of update_trailing_stop)
    \* ---- RiskManager ----
    initial_capital, current_capital, max_risk_per_trade,
    open_positions, daily_pnl, peak_capital, current_drawdown,
    consecutive_losses, daily_trade_count, trading_halted, halt_reason,
    \* ---- EmergencyStopSystem ----
    api_error_count, last_price_update,
    \* ---- broker side: order ids handed out so far ----
    next_order_id,
    \* ---- Backtester: constructor fields, then the locals of run_backtest ----
    bt_initial_capital, commission_pips,
    backtest_pc,         \* "ready", "loop" (inside the for loop) or "done"
    df_len,              \* len(df_test)
    bar_index,           \* the loop variable i
    current_bar,         \* df_test.iloc[i] of the iteration last run
    capital, positions, trades, equity_curve,
    backtest_result,     \* what run_backtest returned
    \* ---- Backtester: the locals of walk_forward_analysis ----
    wf_pc,               \* "ready", "loop" (at the while test), "window"
                         \* (inside run_backtest) or "done"
    wf_end_date,         \* end_date
    train_period, test_period, current_date,
    window,              \* train_start, train_end, test_start, test_end
    wf_results,          \* results
    \* ---- MarketRegimeDetector.detect_regime: the indicators it read and
    \*      the label it returned in its last call ----
    regime_input, regime_result,
    \* ---- IBKRConnector ----
    is_connected, reconnect_attempts,
    ib_connected,        \* ib.isConnected(): the socket to the gateway is up
    conn_pc,             \* "idle", or "loop" (at the while test of reconnect)
    \* ---- update_trailing_stop: the position dictionary it is given, and
    \*      the modify_stop_loss call its last run made ----
    trail_position, trail_sent,
    \* ---- history (not program state) ----
    pnl_sum,             \* sum of the pnl arguments of all close_position calls
    close_count,         \* number of close_position calls
    reset_count,         \* number of reset_daily_metrics calls
    fail_streak,         \* failed data fetches of trading_cycle since the last
                         \* successful one
    cycle_regime,        \* what detect_regime returned in the last trading
                         \* cycle, "None" if the cycle returned before the call
    broker_report,       \* what manage_positions found at the broker in the last
                         \* trading cycle: an EUR/CAD position ("held"), none
                         \* ("flat"), or "none" if the cycle did not reach it
    cycle_request,       \* the can_open_position call of the last trading cycle:
                         \* the strategy it was made for and what it returned,
                         \* NoRequest if the cycle made none
    \* ---- history of the IBKRConnector ----
    conn_attempts,       \* connect() calls that reconnect() made and that
                         \* returned False, since the last connect() that
                         \* returned True
    conn_returned,       \* what the last reconnect() / ensure_connection()
                         \* returned: "True", "False", or "none"
    conn_tried,          \* that call has called connect()
    \* ---- history of update_trailing_stop ----
    trail_call           \* the frame of its last call: has_atr, close, atr

rmVars == <<initial_capital, current_capital, max_risk_per_trade,
            open_positions, daily_pnl, peak_capital, current_drawdown,
            consecutive_losses, daily_trade_count, trading_halted, halt_reason>>
\* The ledger fields that neither an approval request nor add_position writes.
ledgerVars == <<initial_capital, current_capital, max_risk_per_trade,
                daily_pnl, peak_capital, consecutive_losses>>
esVars == <<api_error_count, last_price_update>>
histVars == <<pnl_sum, close_count, reset_count, fail_streak, cycle_regime,
             broker_report, cycle_request>>

btVars == <<bt_initial_capital, commission_pips, backtest_pc, df_len, bar_index,
            current_bar,
            capital, positions, trades, equity_curve, backtest_result>>

wfVars == <<wf_pc, wf_end_date, train_period, test_period, current_date, window,
            wf_results>>

rdVars == <<regime_input, regime_result>>

connVars == <<is_connected, reconnect_attempts, ib_connected, conn_pc,
              conn_attempts, conn_returned, conn_tried>>

trailVars == <<trail_position, trail_sent, trail_call>>

vars == <<program, rmVars, esVars, next_order_id, histVars, btVars, wfVars, rdVars,
          connVars, trailVars>>

(***************************************************************************)
(* Helpers for exact arithmetic.                                          *)
(***************************************************************************)
Min(a, b) == IF a <= b THEN a ELSE b

\* int(x / y) of Python for y > 0: truncation toward zero.
TruncDiv(x, y) == IF x >= 0 THEN x \div y ELSE -((-x) \div y)

\* A fraction f = <<n, d>> with d > 0 compared with a per-mille constant.
FracGE(f, permille) == f[1] * 1000 >= permille * f[2]

\* Two fractions with positive denominators are the same number.
FracEq(f, g) == f[1] * g[2] = g[1] * f[2]

Abs(x) == IF x < 0 THEN -x ELSE x

RECURSIVE Gcd(_, _)
Gcd(a, b) == IF b = 0 THEN a ELSE Gcd(b, a % b)

\* Exact fractions <<n, d>> with d > 0, kept in lowest terms.
Norm(n, d) == LET g == Gcd(Abs(n), d) IN <<n \div g, d \div g>>

RatAdd(a, b) ==
    LET g == Gcd(a[2], b[2]) IN
    Norm(a[1] * (b[2] \div g) + b[1] * (a[2] \div g), (a[2] \div g) * b[2])

RatMul(a, b) ==
    LET g1 == Gcd(Abs(a[1]), b[2])
        g2 == Gcd(Abs(b[1]), a[2])
    IN  Norm((a[1] \div g1) * (b[1] \div g2), (a[2] \div g2) * (b[2] \div g1))

\* a / b for b # 0.
RatDiv(a, b) ==
    RatMul(a, IF b[1] > 0 THEN <<b[2], b[1]>> ELSE <<-b[2], -b[1]>>)

RECURSIVE SumRisk(_)
\* sum([pos['risk_amount'] for pos in self.open_positions])
SumRisk(ps) == IF ps = <<>> THEN 0 ELSE Head(ps).risk_amount + SumRisk(Tail(ps))

(***************************************************************************)
(* RiskManager (src/src/risk_management/risk_manager.py)                   *)
(***************************************************************************)

\* The ledger's true drawdown (peak - capital) / peak.
LedgerDrawdown == <<peak_capital - current_capital, peak_capital>>

\* What a can_open_position call returns and the fields it leaves behind.
Verdict(allowed, reason, halted, hreason, dd) ==
    [allowed |-> allowed, reason |-> reason,
     trading_halted |-> halted, halt_reason |-> hreason, current_drawdown |-> dd]

\* A per-trade limit as wide as the risk of the trend-following strategy.
ExceedsPerTradeRiskLax(risk_amount) ==
    risk_amount > current_capital * TREND_FOLLOWING_RISK

\* The seven limit checks of can_open_position, each on the current ledger.
ExceedsPerTradeRisk(risk_amount) ==
    risk_amount > current_capital * max_risk_per_trade

DailyLossLimitHit == daily_pnl * 1000 < -(current_capital * MAX_DAILY_LOSS)

MaxDrawdownReached == FracGE(LedgerDrawdown, MAX_DRAWDOWN)

MaxConcurrentReached == Len(open_positions) >= MAX_CONCURRENT_TRADES

ConsecutiveLossesMut == consecutive_losses > MAX_CONSECUTIVE_LOSSES

TooManyConsecutiveLosses == consecutive_losses >= MAX_CONSECUTIVE_LOSSES

ExceedsPortfolioRiskMut(risk_amount) ==
    SumRisk(open_positions) > current_capital * MAX_TOTAL_PORTFOLIO_RISK

ExceedsPortfolioRisk(risk_amount) ==
    SumRisk(open_positions) + risk_amount > current_capital * MAX_TOTAL_PORTFOLIO_RISK

DailyTradeLimitReached == daily_trade_count >= MAX_DAILY_TRADES

\* can_open_position with the consecutive-loss and daily-trade checks moved
\* ahead of the per-trade check.
can_open_position_reordered(risk_amount) ==
    IF trading_halted
    THEN Verdict(FALSE, "Trading halted: " \o halt_reason,
                 trading_halted, halt_reason, current_drawdown)
    ELSE IF TooManyConsecutiveLosses
    THEN Verdict(FALSE, "Too many consecutive losses",
                 TRUE, "5 consecutive losses - cooldown period", current_drawdown)
    ELSE IF DailyTradeLimitReached
    THEN Verdict(FALSE, "Daily trade limit reached",
                 trading_halted, halt_reason, current_drawdown)
    ELSE IF DailyLossLimitHit
    THEN Verdict(FALSE, "Daily loss limit reached",
                 TRUE, "Daily loss limit reached", current_drawdown)
    ELSE IF MaxDrawdownReached
    THEN Verdict(FALSE, "Maximum drawdown reached",
                 TRUE, "Maximum drawdown reached", LedgerDrawdown)
    ELSE IF MaxConcurrentReached
    THEN Verdict(FALSE, "Maximum concurrent trades reached",
                 trading_halted, halt_reason, LedgerDrawdown)
    ELSE IF ExceedsPortfolioRisk(risk_amount)
    THEN Verdict(FALSE, "Total portfolio risk exceeds limit",
                 trading_halted, halt_reason, LedgerDrawdown)
    ELSE IF ExceedsPerTradeRisk(risk_amount)
    THEN Verdict(FALSE, "Exceeds per-trade risk limit",
                 trading_halted, halt_reason, LedgerDrawdown)
    ELSE Verdict(TRUE, "Position allowed",
                 trading_halted, halt_reason, LedgerDrawdown)

\* can_open_position that halts trading when the daily trade limit is reached.
can_open_position_halting(risk_amount) ==
    IF trading_halted
    THEN Verdict(FALSE, "Trading halted: " \o halt_reason,
                 trading_halted, halt_reason, current_drawdown)
    ELSE IF ExceedsPerTradeRisk(risk_amount)
    THEN Verdict(FALSE, "Exceeds per-trade risk limit",
                 trading_halted, halt_reason, current_drawdown)
    ELSE IF DailyLossLimitHit
    THEN Verdict(FALSE, "Daily loss limit reached",
                 TRUE, "Daily loss limit reached", current_drawdown)
    ELSE IF MaxDrawdownReached
    THEN Verdict(FALSE, "Maximum drawdown reached",
                 TRUE, "Maximum drawdown reached", LedgerDrawdown)
    ELSE IF MaxConcurrentReached
    THEN Verdict(FALSE, "Maximum concurrent trades reached",
                 trading_halted, halt_reason, LedgerDrawdown)
    ELSE IF TooManyConsecutiveLosses
    THEN Verdict(FALSE, "Too many consecutive losses",
                 TRUE, "5 consecutive losses - cooldown period", LedgerDrawdown)
    ELSE IF ExceedsPortfolioRisk(risk_amount)
    THEN Verdict(FALSE, "Total portfolio risk exceeds limit",
                 trading_halted, halt_reason, LedgerDrawdown)
    ELSE IF DailyTradeLimitReached
    THEN Verdict(FALSE, "Daily trade limit reached",
                 TRUE, "Daily trade limit reached", LedgerDrawdown)
    ELSE Verdict(TRUE, "Position allowed",
                 trading_halted, halt_reason, LedgerDrawdown)

\* can_open_position(risk_amount, strategy_name); risk_amount in milli-dollars.
\* Each branch gives the returned pair and the fields the call leaves behind:
\* a halting branch calls halt_trading, and current_drawdown is recomputed
\* only by a call that gets as far as the drawdown check.
can_open_position(risk_amount) ==
    IF trading_halted
    THEN Verdict(FALSE, "Trading halted: " \o halt_reason,
                 trading_halted, halt_reason, current_drawdown)
    ELSE IF ExceedsPerTradeRisk(risk_amount)
    THEN Verdict(FALSE, "Exceeds per-trade risk limit",
                 trading_halted, halt_reason, current_drawdown)
    ELSE IF DailyLossLimitHit
    THEN Verdict(FALSE, "Daily loss limit reached",
                 TRUE, "Daily loss limit reached", current_drawdown)
    ELSE IF MaxDrawdownReached
    THEN Verdict(FALSE, "Maximum drawdown reached",
                 TRUE, "Maximum drawdown reached", LedgerDrawdown)
    ELSE IF MaxConcurrentReached
    THEN Verdict(FALSE, "Maximum concurrent trades reached",
                 trading_halted, halt_reason, LedgerDrawdown)
    ELSE IF TooManyConsecutiveLosses
    THEN Verdict(FALSE, "Too many consecutive losses",
                 TRUE, "5 consecutive losses - cooldown period", LedgerDrawdown)
    ELSE IF ExceedsPortfolioRisk(risk_amount)
    THEN Verdict(FALSE, "Total portfolio risk exceeds limit",
                 trading_halted, halt_reason, LedgerDrawdown)
    ELSE IF DailyTradeLimitReached
    THEN Verdict(FALSE, "Daily trade limit reached",
                 trading_halted, halt_reason, LedgerDrawdown)
    ELSE Verdict(TRUE, "Position allowed",
                 trading_halted, halt_reason, LedgerDrawdown)

\* The fields of the RiskManager after can_open_position returned v.
ApplyVerdict(v) ==
    /\ trading_halted' = v.trading_halted
    /\ halt_reason' = v.halt_reason
    /\ current_drawdown' = v.current_drawdown

\* close_position: the open positions that remain.
RemainingPositions(position_id) ==
    SelectSeq(open_positions, LAMBDA p : p.id # position_id)

\* A peak that follows the capital down as well as up.
NewPeakMut(c) == c

\* close_position: peak capital after the capital moved to c.
NewPeak(c) == IF c > peak_capital THEN c ELSE peak_capital

\* A counter that counts a break-even trade as a loss.
NewConsecutiveLossesMut(pnl) == IF pnl <= 0 THEN consecutive_losses + 1 ELSE 0

\* close_position: the consecutive-loss counter after a trade with this pnl.
NewConsecutiveLosses(pnl) == IF pnl < 0 THEN consecutive_losses + 1 ELSE 0

NewCapitalMut(pnl) == current_capital - pnl

\* close_position: capital after the trade.
NewCapital(pnl) == current_capital + pnl

(***************************************************************************)
(* EmergencyStopSystem (src/src/risk_management/emergency_stop.py)         *)
(*                                                                        *)
(* A time is [weekday, first_week, hour]; a frame df is what the checks   *)
(* read of it: [has_atr, atr_spike, gap]. elapsed is current_time minus   *)
(* last_price_update in seconds.                                          *)
(***************************************************************************)
Times == { [weekday |-> 0, first_week |-> FALSE, hour |-> 12],
           [weekday |-> 0, first_week |-> FALSE, hour |-> 7],
           [weekday |-> 5, first_week |-> FALSE, hour |-> 12],
           [weekday |-> 4, first_week |-> TRUE,  hour |-> 9] }

\* Frames as the broker connector returns them: no ATR column.
BrokerFrames == { [has_atr |-> FALSE, atr_spike |-> FALSE, gap |-> g] : g \in BOOLEAN }

is_major_news_time(t) ==
    t.weekday = 4 /\ t.first_week /\ 8 <= t.hour /\ t.hour <= 10

check_trading_hours(t) ==
    IF t.weekday \in {5, 6} THEN FALSE
    ELSE IF t.hour < 8 \/ t.hour >= 20 THEN FALSE
    ELSE TRUE

\* check_emergency_conditions(df, current_time), reading the recorded drawdown dd,
\* the error count errs and whether a price timestamp was recorded.
check_emergency_conditions(dd, errs, has_update, elapsed, df, t) ==
    IF FracGE(dd, HALT_ON_DRAWDOWN)
    THEN [should_stop |-> TRUE, reason |-> "Drawdown exceeded 15.0%"]
    ELSE IF df.has_atr /\ df.atr_spike
    THEN [should_stop |-> TRUE, reason |-> "Extreme volatility detected"]
    ELSE IF errs >= API_ERROR_LIMIT
    THEN [should_stop |-> TRUE, reason |-> "Multiple API errors detected"]
    ELSE IF has_update /\ (elapsed % 86400) > 300
    THEN [should_stop |-> TRUE, reason |-> "Stale price data - possible connection issue"]
    ELSE IF df.gap
    THEN [should_stop |-> TRUE, reason |-> "Unexpected price gap detected"]
    ELSE IF t.weekday \in {5, 6}
    THEN [should_stop |-> TRUE, reason |-> "Weekend - market closed"]
    ELSE IF is_major_news_time(t)
    THEN [should_stop |-> TRUE, reason |-> "Major news event - staying out"]
    ELSE [should_stop |-> FALSE, reason |-> NoneStr]

(***************************************************************************)
(* MarketRegimeDetector (src/src/market_analysis/regime_detector.py)       *)
(* The indicators read by detect_regime: ADX, the EMA alignment, ATR and   *)
(* its 20-bar mean, the Bollinger width and its 50-bar mean. Multipliers   *)
(* are in tenths. NaN stands for a float nan (too few bars for the         *)
(* indicator): every comparison with it is false.                          *)
(***************************************************************************)
ADX_STRONG_TREND_THRESHOLD == 30
ADX_WEAK_TREND_THRESHOLD == 20
ATR_HIGH_VOLATILITY_MULTIPLIER == 15
ATR_LOW_VOLATILITY_MULTIPLIER == 8
BB_WIDTH_BREAKOUT_MULTIPLIER == 7
BB_WIDTH_LOW_VOL_MULTIPLIER == 6
NaN == -1

AdxValues == {NaN, 20, 21, 30, 31}
EmaAlignments == {"up", "down", "none"}
AtrValues == {NaN, 7, 8, 15, 16}
AtrAverages == {10}
BbWidthValues == {NaN, 5, 6, 7}
BbWidthAverages == {10}
Indicators == [adx : AdxValues, ema : EmaAlignments, atr : AtrValues,
               atr_avg : AtrAverages, bb_width : BbWidthValues,
               bb_width_avg : BbWidthAverages]
NoIndicators == [adx |-> NaN, ema |-> "none", atr |-> NaN, atr_avg |-> NaN,
                 bb_width |-> NaN, bb_width_avg |-> NaN]

\* a > b and a < b*m/10 on floats
FloatGT(a, b) == a # NaN /\ b # NaN /\ a > b
ScaledLT(a, b, m) == a # NaN /\ b # NaN /\ a * 10 < b * m
ScaledGT(a, b, m) == a # NaN /\ b # NaN /\ a * 10 > b * m

\* A detect_regime that tests high volatility before the trend rules.
detect_regime_volatility_first(ind) ==
    LET aligned == ind.ema \in {"up", "down"} IN
    IF ScaledGT(ind.atr, ind.atr_avg, ATR_HIGH_VOLATILITY_MULTIPLIER)
    THEN "HIGH_VOLATILITY"
    ELSE IF FloatGT(ind.adx, ADX_STRONG_TREND_THRESHOLD) /\ aligned
    THEN "STRONG_TREND"
    ELSE IF FloatGT(ind.adx, ADX_WEAK_TREND_THRESHOLD) /\ aligned
    THEN "WEAK_TREND"
    ELSE IF /\ ScaledLT(ind.bb_width, ind.bb_width_avg, BB_WIDTH_BREAKOUT_MULTIPLIER)
            /\ ScaledLT(ind.atr, ind.atr_avg, ATR_LOW_VOLATILITY_MULTIPLIER)
    THEN "BREAKOUT_PENDING"
    ELSE IF ScaledLT(ind.bb_width, ind.bb_width_avg, BB_WIDTH_LOW_VOL_MULTIPLIER)
    THEN "LOW_VOLATILITY"
    ELSE "RANGING"

\* MarketRegimeDetector.detect_regime on the latest indicator values.
detect_regime(ind) ==
    LET aligned == ind.ema \in {"up", "down"} IN
    IF FloatGT(ind.adx, ADX_STRONG_TREND_THRESHOLD) /\ aligned
    THEN "STRONG_TREND"
    ELSE IF FloatGT(ind.adx, ADX_WEAK_TREND_THRESHOLD) /\ aligned
    THEN "WEAK_TREND"
    ELSE IF /\ ScaledLT(ind.bb_width, ind.bb_width_avg, BB_WIDTH_BREAKOUT_MULTIPLIER)
            /\ ScaledLT(ind.atr, ind.atr_avg, ATR_LOW_VOLATILITY_MULTIPLIER)
    THEN "BREAKOUT_PENDING"
    ELSE IF ScaledGT(ind.atr, ind.atr_avg, ATR_HIGH_VOLATILITY_MULTIPLIER)
    THEN "HIGH_VOLATILITY"
    ELSE IF ScaledLT(ind.bb_width, ind.bb_width_avg, BB_WIDTH_LOW_VOL_MULTIPLIER)
    THEN "LOW_VOLATILITY"
    ELSE "RANGING"

(***************************************************************************)
(* EURCADTradingBot (src/src/bot.py)                                       *)
(***************************************************************************)
Regimes == {"STRONG_TREND", "WEAK_TREND", "BREAKOUT_PENDING",
            "HIGH_VOLATILITY", "LOW_VOLATILITY", "RANGING"}

\* A select_strategy that trades mean reversion in high volatility too.
select_strategy_always_trading(regime) ==
    IF regime = "STRONG_TREND"
    THEN [strategy |-> "trend_following", risk |-> TREND_FOLLOWING_RISK]
    ELSE IF regime \in {"RANGING", "WEAK_TREND"}
    THEN [strategy |-> "mean_reversion", risk |-> MEAN_REVERSION_RISK]
    ELSE IF regime = "LOW_VOLATILITY"
    THEN [strategy |-> "grid_trading", risk |-> GRID_TRADING_RISK]
    ELSE [strategy |-> "mean_reversion", risk |-> MEAN_REVERSION_RISK]

select_strategy(regime) ==
    IF regime = "STRONG_TREND"
    THEN [strategy |-> "trend_following", risk |-> TREND_FOLLOWING_RISK]
    ELSE IF regime \in {"RANGING", "WEAK_TREND"}
    THEN [strategy |-> "mean_reversion", risk |-> MEAN_REVERSION_RISK]
    ELSE IF regime = "LOW_VOLATILITY"
    THEN [strategy |-> "grid_trading", risk |-> GRID_TRADING_RISK]
    ELSE IF regime = "HIGH_VOLATILITY"
    THEN [strategy |-> "stay_out", risk |-> 0]
    ELSE [strategy |-> "mean_reversion", risk |-> MEAN_REVERSION_RISK]

\* The signals a strategy can raise on the last bar: the grid strategy adds no
\* signal columns to the frame (grid_trading.py generate_signals).
SignalsOf(strategy) ==
    IF strategy = "grid_trading" THEN {"none"} ELSE {"none", "long", "short"}

\* calculate_position_size is zero: no price risk, or nothing to risk.
PositionSizeIsZero(stop_distance, risk) ==
    \/ stop_distance = 0
    \/ current_capital = 0
    \/ (risk = 0 /\ current_capital >= 0)

\* int(position_size * 100000) for a non-zero stop distance: the smaller of the
\* risk-based lots and the 10%-of-capital notional cap, in units.
OrderQuantity(stop_distance, risk) ==
    Min(TruncDiv(current_capital * risk * 10, stop_distance),
        TruncDiv(current_capital * 1000, EntryPips))

(***************************************************************************)
(* Initial state: RiskManager.__init__, EmergencyStopSystem.__init__.     *)
(***************************************************************************)
InitObjects ==
    /\ initial_capital \in
          (IF program = "api" THEN InitialCapitals \cup BoundaryCapitals
           ELSE InitialCapitals)
    /\ current_capital = initial_capital
    /\ max_risk_per_trade \in
          (IF program = "bot" THEN {MAX_RISK_PER_TRADE} ELSE MaxRiskPerTradeArgs)
    /\ open_positions = <<>>
    /\ daily_pnl = 0
    /\ peak_capital = initial_capital
    /\ current_drawdown = <<0, 1>>
    /\ consecutive_losses = 0
    /\ daily_trade_count = 0
    /\ trading_halted = FALSE
    /\ halt_reason = NoneStr
    /\ api_error_count = 0
    /\ last_price_update = FALSE
    /\ next_order_id = 1
    /\ pnl_sum = 0
    /\ close_count = 0
    /\ reset_count = 0
    /\ fail_streak = 0
    /\ cycle_regime = NoneStr
    /\ broker_report = "none"
    /\ cycle_request = NoRequest

\* Backtester.__init__; run_backtest has not been called yet. Only the
\* backtest program passes arguments of its own.
InitBacktester ==
    /\ bt_initial_capital \in
          { IF a = 0 THEN INITIAL_CAPITAL ELSE a :
              a \in IF program = "backtest" THEN BacktestCapitalArgs ELSE {0} }
    /\ commission_pips \in
          { IF c = 0 THEN BACKTEST_COMMISSION_PIPS ELSE c :
              c \in IF program = "backtest" THEN CommissionPipsArgs ELSE {0} }
    /\ backtest_pc = "ready"
    /\ df_len = 0
    /\ bar_index = 0
    /\ current_bar = NoBar
    /\ capital = <<0, 1>>
    /\ positions = <<>>
    /\ trades = <<>>
    /\ equity_curve = <<>>
    /\ backtest_result = [empty |-> TRUE]
    /\ wf_pc = "ready"
    /\ wf_end_date = 0
    /\ train_period = 0
    /\ test_period = 0
    /\ current_date = 0
    /\ window = NoWindow
    /\ wf_results = <<>>
    /\ regime_input = NoIndicators
    /\ regime_result = NoneStr

(***************************************************************************)
(* RiskManager operations, callable by any client of the object.          *)
(***************************************************************************)

\* The programs that call the RiskManager directly.
Clients == {"api", "day", "busy"}

\* Orders a client places at most.
OrderBudget == IF program = "busy" THEN MaxBusyOrders ELSE MaxOrders

\* close_position calls a client makes at most (the busy client only closes
\* what it opened).
CloseBudget ==
    IF program = "day" THEN MaxDayCloses
    ELSE IF program = "busy" THEN MaxBusyOrders
    ELSE MaxCloses

\* pnl arguments of a client's close_position calls.
ClosePnls == IF program = "busy" THEN {0} ELSE PnlChoices

\* rm.can_open_position(risk_amount, name) called directly.
CanOpenPosition ==
    /\ program \in Clients
    /\ \E risk_amount \in RiskAmounts :
         ApplyVerdict(can_open_position(risk_amount))
    /\ UNCHANGED <<program, ledgerVars, open_positions, daily_trade_count,
                   esVars, next_order_id, histVars>>

\* The ids a close_position call may name: an open position's, or one that
\* matches nothing (MaxOrders + 1 is never handed out).
CloseIds ==
    { open_positions[i].id : i \in 1..Len(open_positions) } \cup
    (IF program = "busy" THEN {} ELSE {MaxOrders + 1})

\* close_position that ignores an id that matches no open position.
close_position_guarded(position_id, pnl) ==
    IF \A i \in 1..Len(open_positions) : open_positions[i].id # position_id
    THEN UNCHANGED rmVars
    ELSE /\ open_positions' = RemainingPositions(position_id)
         /\ current_capital' = NewCapital(pnl)
         /\ daily_pnl' = daily_pnl + pnl
         /\ peak_capital' = NewPeak(NewCapital(pnl))
         /\ consecutive_losses' = NewConsecutiveLosses(pnl)
         /\ UNCHANGED <<initial_capital, max_risk_per_trade, current_drawdown,
                        daily_trade_count, trading_halted, halt_reason>>

\* close_position that does nothing while trading is halted.
close_position_refusing(position_id, pnl) ==
    IF trading_halted
    THEN UNCHANGED rmVars
    ELSE /\ open_positions' = RemainingPositions(position_id)
         /\ current_capital' = NewCapital(pnl)
         /\ daily_pnl' = daily_pnl + pnl
         /\ peak_capital' = NewPeak(NewCapital(pnl))
         /\ consecutive_losses' = NewConsecutiveLosses(pnl)
         /\ UNCHANGED <<initial_capital, max_risk_per_trade, current_drawdown,
                        daily_trade_count, trading_halted, halt_reason>>

\* close_position that clears the halt when a trade wins.
close_position_unhalting(position_id, pnl) ==
    /\ open_positions' = RemainingPositions(position_id)
    /\ current_capital' = NewCapital(pnl)
    /\ daily_pnl' = daily_pnl + pnl
    /\ peak_capital' = NewPeak(NewCapital(pnl))
    /\ consecutive_losses' = NewConsecutiveLosses(pnl)
    /\ IF pnl > 0
       THEN trading_halted' = FALSE /\ halt_reason' = NoneStr
       ELSE UNCHANGED <<trading_halted, halt_reason>>
    /\ UNCHANGED <<initial_capital, max_risk_per_trade, current_drawdown,
                   daily_trade_count>>

\* The ledger update of rm.close_position(position_id, pnl).
close_position(position_id, pnl) ==
    /\ open_positions' = RemainingPositions(position_id)
    /\ current_capital' = NewCapital(pnl)
    /\ daily_pnl' = daily_pnl + pnl
    /\ peak_capital' = NewPeak(NewCapital(pnl))
    /\ consecutive_losses' = NewConsecutiveLosses(pnl)
    /\ UNCHANGED <<initial_capital, max_risk_per_trade, current_drawdown,
                   daily_trade_count, trading_halted, halt_reason>>

ClosePosition ==
    /\ program \in Clients
    /\ close_count < CloseBudget
    /\ \E position_id \in CloseIds, pnl \in ClosePnls :
         /\ close_position(position_id, pnl)
         /\ pnl_sum' = pnl_sum + pnl
    /\ close_count' = close_count + 1
    /\ UNCHANGED <<program, esVars, next_order_id, reset_count, fail_streak,
                   cycle_regime, broker_report, cycle_request>>

\* rm.halt_trading(reason)
halt_trading(reason) ==
    /\ trading_halted' = TRUE
    /\ halt_reason' = reason

\* resume_trading that starts over from the current capital with a clean day.
resume_trading_clearing ==
    /\ trading_halted' = FALSE
    /\ halt_reason' = NoneStr
    /\ consecutive_losses' = 0
    /\ daily_pnl' = 0
    /\ peak_capital' = current_capital
    /\ UNCHANGED <<initial_capital, current_capital, max_risk_per_trade,
                   open_positions, current_drawdown, daily_trade_count>>

\* rm.resume_trading()
resume_trading ==
    /\ trading_halted' = FALSE
    /\ halt_reason' = NoneStr
    /\ consecutive_losses' = 0
    /\ UNCHANGED <<initial_capital, current_capital, max_risk_per_trade,
                   open_positions, daily_pnl, peak_capital, current_drawdown,
                   daily_trade_count>>

ResumeTrading ==
    /\ resume_trading
    /\ UNCHANGED <<program, esVars, next_order_id, histVars>>

\* reset_daily_metrics that also re-enables trading below the loss-streak limit.
reset_daily_metrics_resuming ==
    /\ daily_pnl' = 0
    /\ daily_trade_count' = 0
    /\ IF consecutive_losses < MAX_CONSECUTIVE_LOSSES
       THEN trading_halted' = FALSE /\ halt_reason' = NoneStr
       ELSE UNCHANGED <<trading_halted, halt_reason>>
    /\ UNCHANGED <<initial_capital, current_capital, max_risk_per_trade,
                   open_positions, peak_capital, current_drawdown,
                   consecutive_losses>>

\* rm.reset_daily_metrics()
reset_daily_metrics ==
    /\ daily_pnl' = 0
    /\ daily_trade_count' = 0
    /\ UNCHANGED <<initial_capital, current_capital, max_risk_per_trade,
                   open_positions, peak_capital, current_drawdown,
                   consecutive_losses, trading_halted, halt_reason>>

ResetDailyMetrics ==
    /\ program = "day"
    /\ reset_count < MaxResets
    /\ reset_daily_metrics
    /\ reset_count' = reset_count + 1
    /\ UNCHANGED <<program, esVars, next_order_id, pnl_sum, close_count, fail_streak,
                   cycle_regime, broker_report, cycle_request>>

(***************************************************************************)
(* One trading cycle of the bot (bot.py trading_cycle), as one step.      *)
(***************************************************************************)
StrategyName(strategy) ==
    IF strategy = "trend_following" THEN "Trend Following"
    ELSE IF strategy = "grid_trading" THEN "Grid Trading"
    ELSE "Mean Reversion"

\* calculate_entry_exit: None, or levels with this stop distance in pips.
\* The grid strategy always returns None.
EntryData(strategy) ==
    {[valid |-> FALSE, stop_distance |-> 0]} \cup
    (IF strategy = "grid_trading" THEN {}
     ELSE {[valid |-> TRUE, stop_distance |-> d] : d \in StopDistances})

\* rm.add_position(position)
add_position(position) ==
    /\ open_positions' = Append(open_positions, position)
    /\ daily_trade_count' = daily_trade_count + 1

\* process_signal(signal_type, df, params) with the active strategy chosen.
process_signal(signal_type, strategy, risk) ==
    \E entry \in EntryData(strategy) :
      IF ~entry.valid \/ PositionSizeIsZero(entry.stop_distance, risk)
      THEN /\ UNCHANGED <<rmVars, next_order_id>>
           /\ cycle_request' = NoRequest
      ELSE
        LET v == can_open_position(current_capital * risk) IN
        /\ ApplyVerdict(v)
        /\ cycle_request' = [strategy |-> StrategyName(strategy),
                             allowed |-> v.allowed, reason |-> v.reason]
        /\ UNCHANGED ledgerVars
        /\ IF ~v.allowed
           THEN UNCHANGED <<open_positions, daily_trade_count, next_order_id>>
           ELSE
             \* the spread check fails, or the broker places the bracket order, or not
             \E outcome \in {"wide_spread", "not_placed", "placed"} :
               IF /\ outcome = "placed"
                  /\ OrderQuantity(entry.stop_distance, risk) >= MIN_TRADE_UNITS
                  /\ next_order_id <= MaxOrders
               THEN /\ add_position([id |-> next_order_id,
                                     type |-> signal_type,
                                     risk_amount |-> current_capital * risk,
                                     strategy |-> StrategyName(strategy)])
                    /\ next_order_id' = next_order_id + 1
               ELSE UNCHANGED <<open_positions, daily_trade_count, next_order_id>>

\* es.log_api_error()
\* A log_api_error that halts only past the third error.
log_api_error_late ==
    /\ api_error_count' = api_error_count + 1
    /\ IF api_error_count + 1 > API_ERROR_LIMIT
       THEN halt_trading("Multiple API errors")
       ELSE UNCHANGED <<trading_halted, halt_reason>>

log_api_error ==
    /\ api_error_count' = api_error_count + 1
    /\ IF api_error_count + 1 >= API_ERROR_LIMIT
       THEN halt_trading("Multiple API errors")
       ELSE UNCHANGED <<trading_halted, halt_reason>>

\* The cycle returns before detect_regime and manage_positions.
CycleEndsEarly ==
    /\ cycle_regime' = NoneStr
    /\ broker_report' = "none"
    /\ cycle_request' = NoRequest

\* What ibkr.get_positions() shows manage_positions: an EUR/CAD position or none.
BrokerReports == {"held", "flat"}

trading_cycle ==
    /\ program = "bot"
    /\ UNCHANGED <<program, pnl_sum, close_count, reset_count>>
    /\ \E t \in Times :
         IF ~check_trading_hours(t)
         THEN /\ UNCHANGED <<rmVars, esVars, next_order_id, fail_streak>>
              /\ CycleEndsEarly
         ELSE
           \E fetched \in BOOLEAN :
             IF ~fetched
             THEN /\ api_error_count < MaxApiErrors
                  /\ log_api_error
                  /\ fail_streak' = fail_streak + 1
                  /\ CycleEndsEarly
                  /\ UNCHANGED <<ledgerVars, open_positions, current_drawdown,
                                 daily_trade_count, last_price_update, next_order_id>>
             ELSE
               \* reset_api_errors(); update_price_timestamp(current_time)
               /\ api_error_count' = 0
               /\ last_price_update' = TRUE
               /\ fail_streak' = 0
               /\ \E df \in BrokerFrames :
                    LET e == check_emergency_conditions(current_drawdown, 0, TRUE, 0, df, t) IN
                    IF e.should_stop
                    THEN /\ halt_trading(e.reason)
                         /\ CycleEndsEarly
                         /\ UNCHANGED <<ledgerVars, open_positions, current_drawdown,
                                        daily_trade_count, next_order_id>>
                    ELSE
                      \* the label detect_regime returns on the frame
                      \E regime \in Regimes :
                        LET s == select_strategy(regime) IN
                        /\ cycle_regime' = regime
                        /\ IF s.strategy = "stay_out"
                           THEN /\ UNCHANGED <<rmVars, next_order_id>>
                                /\ broker_report' = "none"
                                /\ cycle_request' = NoRequest
                           ELSE
                             /\ \E signal \in SignalsOf(s.strategy) :
                                  IF signal = "none"
                                  THEN /\ UNCHANGED <<rmVars, next_order_id>>
                                       /\ cycle_request' = NoRequest
                                  ELSE process_signal(signal, s.strategy, s.risk)
                             \* manage_positions: a position not found at the broker
                             \* is skipped, a held one at most gets a new stop
                             /\ \E report \in BrokerReports : broker_report' = report

\* A client registers a position the way process_signal does: it asks for
\* approval of the risk amount and calls add_position only when it is given.
OpenPosition ==
    /\ program \in Clients
    /\ next_order_id <= OrderBudget
    /\ \E risk_amount \in RiskAmounts :
         LET v == can_open_position(risk_amount) IN
         /\ ApplyVerdict(v)
         /\ v.allowed
         /\ add_position([id |-> next_order_id,
                          type |-> "long",
                          risk_amount |-> risk_amount,
                          strategy |-> "Mean Reversion"])
    /\ next_order_id' = next_order_id + 1
    /\ UNCHANGED <<program, ledgerVars, esVars, histVars>>

(***************************************************************************)
(* Backtester                                                             *)
(***************************************************************************)

\* Backtester._open_position: 1% of capital at risk; size 0 when the stop is
\* at the entry price.
_open_position(position_type, entry_data, cap, index) ==
    LET risk_per_trade == RatMul(cap, Norm(BACKTEST_RISK_PERCENT, 100))
        stop_distance == Abs(entry_data.entry - entry_data.stop_loss)
        position_size ==
            IF stop_distance = 0
            THEN <<0, 1>>
            ELSE RatMul(RatDiv(risk_per_trade, Norm(stop_distance, TicksPerUnit)),
                        Norm(entry_data.entry, TicksPerUnit))
    IN  [type |-> position_type,
         entry_price |-> entry_data.entry,
         entry_index |-> index,
         stop_loss |-> entry_data.stop_loss,
         take_profit_1 |-> entry_data.take_profit_1,
         size |-> position_size]

\* _check_exit that looks at the take profit before the stop loss.
_check_exit_tp_first(position, bar, index) ==
    IF position.type = "long" /\ bar.high >= position.take_profit_1
    THEN [none |-> FALSE, price |-> position.take_profit_1, reason |-> "take_profit"]
    ELSE IF position.type = "long" /\ bar.low <= position.stop_loss
    THEN [none |-> FALSE, price |-> position.stop_loss, reason |-> "stop_loss"]
    ELSE IF position.type # "long" /\ bar.low <= position.take_profit_1
    THEN [none |-> FALSE, price |-> position.take_profit_1, reason |-> "take_profit"]
    ELSE IF position.type # "long" /\ bar.high >= position.stop_loss
    THEN [none |-> FALSE, price |-> position.stop_loss, reason |-> "stop_loss"]
    ELSE IF index - position.entry_index > TIME_EXIT_BARS
    THEN [none |-> FALSE, price |-> bar.close, reason |-> "time_exit"]
    ELSE [none |-> TRUE, price |-> 0, reason |-> NoneStr]

\* _check_exit whose time exit comes one bar later.
_check_exit_late(position, bar, index) ==
    IF position.type = "long" /\ bar.low <= position.stop_loss
    THEN [none |-> FALSE, price |-> position.stop_loss, reason |-> "stop_loss"]
    ELSE IF position.type = "long" /\ bar.high >= position.take_profit_1
    THEN [none |-> FALSE, price |-> position.take_profit_1, reason |-> "take_profit"]
    ELSE IF position.type # "long" /\ bar.high >= position.stop_loss
    THEN [none |-> FALSE, price |-> position.stop_loss, reason |-> "stop_loss"]
    ELSE IF position.type # "long" /\ bar.low <= position.take_profit_1
    THEN [none |-> FALSE, price |-> position.take_profit_1, reason |-> "take_profit"]
    ELSE IF index - position.entry_index > TIME_EXIT_BARS + 1
    THEN [none |-> FALSE, price |-> bar.close, reason |-> "time_exit"]
    ELSE [none |-> TRUE, price |-> 0, reason |-> NoneStr]

\* Backtester._check_exit: stop loss first, then take profit, then age.
_check_exit(position, bar, index) ==
    IF position.type = "long" /\ bar.low <= position.stop_loss
    THEN [none |-> FALSE, price |-> position.stop_loss, reason |-> "stop_loss"]
    ELSE IF position.type = "long" /\ bar.high >= position.take_profit_1
    THEN [none |-> FALSE, price |-> position.take_profit_1, reason |-> "take_profit"]
    ELSE IF position.type # "long" /\ bar.high >= position.stop_loss
    THEN [none |-> FALSE, price |-> position.stop_loss, reason |-> "stop_loss"]
    ELSE IF position.type # "long" /\ bar.low <= position.take_profit_1
    THEN [none |-> FALSE, price |-> position.take_profit_1, reason |-> "take_profit"]
    ELSE IF index - position.entry_index > TIME_EXIT_BARS
    THEN [none |-> FALSE, price |-> bar.close, reason |-> "time_exit"]
    ELSE [none |-> TRUE, price |-> 0, reason |-> NoneStr]

\* Backtester._calculate_pnl: price change less commission, times size.
_calculate_pnl(position, close_result) ==
    LET price_change ==
            IF position.type = "long"
            THEN close_result.price - position.entry_price
            ELSE position.entry_price - close_result.price
        \* commission_pips * pip_value, in ticks
        commission == (commission_pips * EURCAD_PIP_VALUE) \div 10
    IN  RatMul(Norm(price_change - commission, TicksPerUnit), position.size)

\* Backtester._calculate_unrealized_pnl
_calculate_unrealized_pnl(position, bar) ==
    IF position.type = "long"
    THEN RatMul(Norm(bar.close - position.entry_price, TicksPerUnit), position.size)
    ELSE RatMul(Norm(position.entry_price - bar.close, TicksPerUnit), position.size)

\* An equity mark that leaves the open positions out.
SumUnrealizedMut(ps, bar) == <<0, 1>>

RECURSIVE SumUnrealized(_, _)
SumUnrealized(ps, bar) ==
    IF ps = <<>> THEN <<0, 1>>
    ELSE RatAdd(_calculate_unrealized_pnl(Head(ps), bar), SumUnrealized(Tail(ps), bar))

\* A slot test that finds the slot always free.
NoOpenPositionMut(ps) == TRUE

\* len(positions) == 0: the single position slot is free.
NoOpenPosition(ps) == Len(ps) = 0

\* The entry block of one loop iteration: the positions after it.
PositionsAfterEntry(bar, long_data, short_data) ==
    IF bar.long_signal /\ NoOpenPosition(positions)
    THEN IF long_data.none THEN positions
         ELSE Append(positions, _open_position("long", long_data, capital, bar_index))
    ELSE IF bar.short_signal /\ NoOpenPosition(positions)
    THEN IF short_data.none THEN positions
         ELSE Append(positions, _open_position("short", short_data, capital, bar_index))
    ELSE positions

\* The exit block of one loop iteration over the positions ps, starting from
\* capital cap and trade log ts: the capital, log and open positions after it.
RECURSIVE ExitLoop(_, _, _, _, _)
ExitLoop(ps, bar, cap, ts, kept) ==
    IF ps = <<>> THEN [capital |-> cap, trades |-> ts, positions |-> kept]
    ELSE LET pos == Head(ps)
             close_result == _check_exit(pos, bar, bar_index)
         IN  IF close_result.none
             THEN ExitLoop(Tail(ps), bar, cap, ts, Append(kept, pos))
             ELSE LET pnl == _calculate_pnl(pos, close_result)
                      new_cap == RatAdd(cap, pnl)
                  IN  ExitLoop(Tail(ps), bar, new_cap,
                               Append(ts, [entry_index |-> pos.entry_index,
                                           exit_index |-> bar_index,
                                           type |-> pos.type,
                                           entry_price |-> pos.entry_price,
                                           exit_price |-> close_result.price,
                                           pnl |-> pnl,
                                           pnl_pct |-> RatMul(RatDiv(pnl, new_cap), <<100, 1>>),
                                           exit_reason |-> close_result.reason]),
                               kept)

\* A run_backtest that goes on with the capital of the run before.
run_backtest_carrying(n) ==
    /\ df_len' = n
    /\ IF n < WARMUP_BARS
       THEN /\ backtest_pc' = "done"
            /\ backtest_result' = [empty |-> TRUE]
            /\ UNCHANGED <<capital, positions, trades, equity_curve, bar_index,
                           current_bar>>
       ELSE /\ backtest_pc' = "loop"
            /\ capital' = IF capital = <<0, 1>> THEN <<bt_initial_capital, 1>> ELSE capital
            /\ positions' = <<>>
            /\ trades' = <<>>
            /\ equity_curve' = << <<bt_initial_capital, 1>> >>
            /\ bar_index' = WARMUP_BARS
            /\ current_bar' = NoBar
            /\ UNCHANGED backtest_result
    /\ UNCHANGED <<program, rmVars, esVars, next_order_id, histVars, rdVars, connVars, trailVars,
                   bt_initial_capital, commission_pips>>

\* run_backtest up to the loop on a test frame of n bars: too short a frame
\* returns {}.
run_backtest_call(n) ==
    /\ df_len' = n
    /\ IF n < WARMUP_BARS
       THEN /\ backtest_pc' = "done"
            /\ backtest_result' = [empty |-> TRUE]
            /\ UNCHANGED <<capital, positions, trades, equity_curve, bar_index,
                           current_bar>>
       ELSE /\ backtest_pc' = "loop"
            /\ capital' = <<bt_initial_capital, 1>>
            /\ positions' = <<>>
            /\ trades' = <<>>
            /\ equity_curve' = << <<bt_initial_capital, 1>> >>
            /\ bar_index' = WARMUP_BARS
            /\ current_bar' = NoBar
            /\ UNCHANGED backtest_result
    /\ UNCHANGED <<program, rmVars, esVars, next_order_id, histVars, rdVars, connVars, trailVars,
                   bt_initial_capital, commission_pips>>

\* A call of run_backtest by the backtest program.
run_backtest ==
    /\ program = "backtest"
    /\ backtest_pc = "ready"
    /\ \E n \in FrameLengths : run_backtest_call(n)
    /\ UNCHANGED wfVars

\* One iteration of the for loop of run_backtest on bar i of the frame.
SimulateBar ==
    /\ program \in {"backtest", "walkforward"}
    /\ backtest_pc = "loop"
    /\ bar_index < df_len
    /\ \E prices \in PricesAt(bar_index, df_len), signals \in SignalsAt(bar_index, df_len) :
       \* calculate_entry_exit is called only in the branch of its signal
       \E long_data \in (IF signals.long_signal /\ NoOpenPosition(positions)
                          THEN EntryDataChoices("long") ELSE {NoEntryData}),
          short_data \in (IF ~signals.long_signal /\ signals.short_signal
                              /\ NoOpenPosition(positions)
                           THEN EntryDataChoices("short") ELSE {NoEntryData}) :
         LET bar == [low |-> prices.low, high |-> prices.high, close |-> prices.close,
                     long_signal |-> signals.long_signal,
                     short_signal |-> signals.short_signal]
             entered == PositionsAfterEntry(bar, long_data, short_data)
             after == ExitLoop(entered, bar, capital, trades, <<>>)
         IN  /\ current_bar' = bar
             /\ capital' = after.capital
             /\ trades' = after.trades
             /\ positions' = after.positions
             /\ equity_curve' =
                    Append(equity_curve,
                           RatAdd(after.capital, SumUnrealized(after.positions, bar)))
    /\ bar_index' = bar_index + 1
    /\ UNCHANGED <<program, rmVars, esVars, next_order_id, histVars, rdVars, connVars, trailVars,
                   bt_initial_capital, commission_pips, backtest_pc, df_len,
                   backtest_result, wfVars>>

\* ---- _calculate_metrics ----
\* A metric value: a number (exact fraction), the float inf, or the
\* ZeroDivisionError a Python division by zero raises.
Num(r) == [inf |-> FALSE, error |-> FALSE, value |-> r]
Inf == [inf |-> TRUE, error |-> FALSE, value |-> <<0, 1>>]
DivisionError == [inf |-> FALSE, error |-> TRUE, value |-> <<0, 1>>]
\* a / b in Python
PyDiv(a, b) == IF b[1] = 0 THEN DivisionError ELSE Num(RatDiv(a, b))

\* trades[trades['pnl'] > 0] and trades[trades['pnl'] < 0]
WinningTrades(ts) == SelectSeq(ts, LAMBDA t : t.pnl[1] > 0)
LosingTrades(ts) == SelectSeq(ts, LAMBDA t : t.pnl[1] < 0)

RECURSIVE PnlSum(_)
\* ['pnl'].sum()
PnlSum(ts) == IF ts = <<>> THEN <<0, 1>> ELSE RatAdd(Head(ts).pnl, PnlSum(Tail(ts)))

\* gross_profit and gross_loss
GrossProfit(ts) == PnlSum(WinningTrades(ts))
GrossLoss(ts) == LET l == PnlSum(LosingTrades(ts)) IN <<Abs(l[1]), l[2]>>

\* A profit factor that divides without looking at the gross loss.
ProfitFactorUnguarded(ts) == PyDiv(GrossProfit(ts), GrossLoss(ts))

\* profit_factor
ProfitFactor(ts) ==
    IF GrossLoss(ts)[1] > 0 THEN PyDiv(GrossProfit(ts), GrossLoss(ts))
    ELSE IF GrossProfit(ts)[1] > 0 THEN Inf
    ELSE Num(<<0, 1>>)

\* win_rate
WinRate(ts) ==
    IF Len(ts) > 0 THEN PyDiv(<<Len(WinningTrades(ts)), 1>>, <<Len(ts), 1>>)
    ELSE Num(<<0, 1>>)

\* Backtester._calculate_metrics: the count and the trade ratios; of the
\* drawdown and the Sharpe ratio, the zeros returned for an empty trade list.
_calculate_metrics(ts, curve) ==
    IF ts = <<>>
    THEN [total_trades |-> 0,
          win_rate |-> Num(<<0, 1>>),
          profit_factor |-> Num(<<0, 1>>),
          max_drawdown |-> Num(<<0, 1>>),
          sharpe_ratio |-> Num(<<0, 1>>)]
    ELSE [total_trades |-> Len(ts),
          win_rate |-> WinRate(ts),
          profit_factor |-> ProfitFactor(ts)]

\* The loop is over: run_backtest returns its results.
FinishBacktest ==
    /\ program \in {"backtest", "walkforward"}
    /\ backtest_pc = "loop"
    /\ bar_index >= df_len
    /\ backtest_pc' = "done"
    /\ backtest_result' = [empty |-> FALSE,
                           trades |-> trades,
                           metrics |-> _calculate_metrics(trades, equity_curve),
                           equity_curve |-> equity_curve,
                           final_capital |-> capital]
    /\ UNCHANGED <<program, rmVars, esVars, next_order_id, histVars, rdVars, connVars, trailVars,
                   bt_initial_capital, commission_pips, df_len, bar_index,
                   current_bar, capital, positions, trades, equity_curve, wfVars>>

\* A window whose test period starts with its training period.
WalkForwardWindowMut(date) ==
    [train_start |-> date,
     train_end |-> date + train_period * DAYS_PER_MONTH,
     test_start |-> date,
     test_end |-> date + test_period * DAYS_PER_MONTH]

\* The window that the while loop of walk_forward_analysis builds at current_date.
WalkForwardWindow(date) ==
    [train_start |-> date,
     train_end |-> date + train_period * DAYS_PER_MONTH,
     test_start |-> date + train_period * DAYS_PER_MONTH,
     test_end |-> date + train_period * DAYS_PER_MONTH + test_period * DAYS_PER_MONTH]

\* A loop that starts the next window where this one started.
NextWindowStartMut(w) == w.train_start

\* "Move forward": the start of the window after w.
NextWindowStart(w) == w.test_end

\* walk_forward_analysis up to its while loop.
walk_forward_analysis ==
    /\ program = "walkforward"
    /\ wf_pc = "ready"
    /\ \E end \in WalkEndDates, train_arg \in TrainPeriodArgs, test_arg \in TestPeriodArgs :
         /\ wf_end_date' = end
         /\ train_period' = IF train_arg = 0 THEN BACKTEST_TRAIN_PERIOD_MONTHS ELSE train_arg
         /\ test_period' = IF test_arg = 0 THEN BACKTEST_TEST_PERIOD_MONTHS ELSE test_arg
    /\ current_date' = WalkStartDate
    /\ wf_results' = <<>>
    /\ wf_pc' = "loop"
    /\ UNCHANGED <<program, rmVars, esVars, next_order_id, histVars, rdVars, connVars, trailVars, btVars,
                   window>>

\* One pass of the while loop up to the loop of run_backtest: the loop ends,
\* breaks on a window past the end of the data, or runs the window's backtest.
WalkForwardIteration ==
    /\ program = "walkforward"
    /\ wf_pc = "loop"
    /\ backtest_pc = "ready"
    /\ LET w == WalkForwardWindow(current_date)
       IN  IF current_date < wf_end_date /\ ~(w.test_end > wf_end_date)
           THEN /\ window' = w
                /\ wf_pc' = "window"
                /\ \E n \in WalkFrameLengths : run_backtest_call(n)
           ELSE /\ wf_pc' = "done"
                /\ UNCHANGED <<window, program, rmVars, esVars, next_order_id,
                               histVars, rdVars, connVars, trailVars, btVars>>
    /\ UNCHANGED <<wf_end_date, train_period, test_period, current_date, wf_results>>

\* run_backtest has returned: the rest of the pass of the while loop.
WalkForwardCollect ==
    /\ program = "walkforward"
    /\ wf_pc = "window"
    /\ backtest_pc = "done"
    /\ wf_results' = IF backtest_result.empty THEN wf_results
                     ELSE Append(wf_results, [test_start |-> window.test_start,
                                              test_end |-> window.test_end,
                                              final_capital |-> backtest_result.final_capital,
                                              trades |-> backtest_result.trades])
    /\ current_date' = NextWindowStart(window)
    /\ wf_pc' = "loop"
    /\ backtest_pc' = "ready"
    /\ UNCHANGED <<program, rmVars, esVars, next_order_id, histVars, rdVars, connVars, trailVars,
                   bt_initial_capital, commission_pips, df_len, bar_index,
                   current_bar, capital, positions, trades, equity_curve,
                   backtest_result, wf_end_date, train_period, test_period, window>>

(***************************************************************************)
(* IBKRConnector (src/src/ibkr/connector.py)                               *)
(***************************************************************************)

\* IBKRConnector.__init__
InitConnector ==
    /\ is_connected = FALSE
    /\ reconnect_attempts = 0
    /\ ib_connected = FALSE
    /\ conn_pc = "idle"
    /\ conn_attempts = 0
    /\ conn_returned = "none"
    /\ conn_tried = FALSE

\* No position is being trailed.
InitNoTrailing ==
    /\ trail_position = [type |-> "long", stop_loss |-> 0, id |-> 0]
    /\ trail_sent = NoInstruction
    /\ trail_call = NoTrailCall

\* connect() returns True.
ConnectReturns(outcome) == outcome = "connected"

\* connect() called with reconnect_attempts at attempts: an old socket is
\* closed first; the counter is reset as soon as ib.connect has returned.
connect(outcome, attempts) ==
    IF outcome = "refused"
    THEN /\ is_connected' = FALSE
         /\ ib_connected' = FALSE
         /\ reconnect_attempts' = attempts
    ELSE IF outcome = "connected"
    THEN /\ is_connected' = TRUE
         /\ ib_connected' = TRUE
         /\ reconnect_attempts' = 0
    ELSE /\ is_connected' = FALSE
         /\ ib_connected' = (outcome = "setup_failed")
         /\ reconnect_attempts' = 0

\* connector.connect() called directly (bot.start).
Connect ==
    /\ program = "connector"
    /\ conn_pc = "idle"
    /\ \E outcome \in ConnectOutcomes :
         /\ connect(outcome, reconnect_attempts)
         /\ conn_attempts' = IF ConnectReturns(outcome) THEN 0 ELSE conn_attempts
    /\ UNCHANGED <<conn_pc, conn_returned, conn_tried>>

\* connector.disconnect()
Disconnect ==
    /\ program = "connector"
    /\ conn_pc = "idle"
    /\ IF is_connected
       THEN is_connected' = FALSE /\ ib_connected' = FALSE
       ELSE UNCHANGED <<is_connected, ib_connected>>
    /\ UNCHANGED <<reconnect_attempts, conn_pc, conn_attempts, conn_returned,
                   conn_tried>>

\* The gateway or the network drops the socket.
ConnectionLost ==
    /\ program = "connector"
    /\ ib_connected
    /\ ib_connected' = FALSE
    /\ UNCHANGED <<is_connected, reconnect_attempts, conn_pc, conn_attempts,
                   conn_returned, conn_tried>>

\* connector.reconnect() up to its while loop.
Reconnect ==
    /\ program = "connector"
    /\ conn_pc = "idle"
    /\ conn_pc' = "loop"
    /\ conn_returned' = "none"
    /\ conn_tried' = FALSE
    /\ UNCHANGED <<is_connected, reconnect_attempts, ib_connected, conn_attempts>>

\* connector.ensure_connection(): check_connection, then reconnect() up to
\* its while loop if the check failed.
EnsureConnection ==
    /\ program = "connector"
    /\ conn_pc = "idle"
    /\ \E healthy \in BOOLEAN :
         IF ib_connected /\ healthy
         THEN /\ is_connected' = TRUE
              /\ conn_returned' = "True"
              /\ UNCHANGED conn_pc
         ELSE /\ is_connected' = FALSE
              /\ conn_returned' = "none"
              /\ conn_pc' = "loop"
    /\ conn_tried' = FALSE
    /\ UNCHANGED <<reconnect_attempts, ib_connected, conn_attempts>>

\* One pass of the while loop of reconnect(), or its end.
ReconnectLoop ==
    /\ program = "connector"
    /\ conn_pc = "loop"
    /\ IF reconnect_attempts < max_reconnect_attempts
       THEN /\ conn_attempts < MaxConnects
            /\ \E outcome \in ConnectOutcomes :
                 /\ connect(outcome, reconnect_attempts + 1)
                 /\ conn_attempts' =
                       IF ConnectReturns(outcome) THEN 0 ELSE conn_attempts + 1
                 /\ conn_pc' = IF ConnectReturns(outcome) THEN "idle" ELSE "loop"
                 /\ conn_returned' =
                       IF ConnectReturns(outcome) THEN "True" ELSE "none"
                 /\ conn_tried' = TRUE
       ELSE /\ conn_pc' = "idle"
            /\ conn_returned' = "False"
            /\ UNCHANGED <<is_connected, reconnect_attempts, ib_connected,
                           conn_attempts, conn_tried>>

\* Calls of the IBKRConnector.
ConnectorNext ==
    /\ \/ Connect
       \/ Disconnect
       \/ ConnectionLost
       \/ Reconnect
       \/ EnsureConnection
       \/ ReconnectLoop
    /\ UNCHANGED <<program, rmVars, esVars, next_order_id, histVars, btVars, wfVars,
                   rdVars, trailVars>>

(***************************************************************************)
(* EURCADTradingBot.update_trailing_stop (src/src/bot.py). Prices and the  *)
(* ATR are in pips.                                                        *)
(***************************************************************************)

\* A position dictionary before its first update; id 0 stands for None.
InitTrailing ==
    /\ trail_position \in
          [type : {"long", "short"}, stop_loss : TrailStops, id : {0, 1}]
    /\ trail_sent = NoInstruction
    /\ trail_call = NoTrailCall

\* new_stop of a call: a nan ATR gives nan.
NewStop(type, close, atr) ==
    IF atr = NaN THEN NaN
    ELSE IF type = "long" THEN close - TRAILING_STOP_ATR_MULTIPLE * atr
    ELSE close + TRAILING_STOP_ATR_MULTIPLE * atr

\* An update that also moves the stop to an equal candidate.
StopImprovesOrEqual(type, new_stop, stop_loss) ==
    /\ new_stop # NaN
    /\ IF type = "long" THEN new_stop >= stop_loss ELSE new_stop <= stop_loss

\* new_stop > position['stop_loss'] for a long, < for a short position.
StopImproves(type, new_stop, stop_loss) ==
    /\ new_stop # NaN
    /\ IF type = "long" THEN new_stop > stop_loss ELSE new_stop < stop_loss

\* update_trailing_stop(position, df): the position it leaves and the
\* modify_stop_loss call it made.
update_trailing_stop(position, call) ==
    LET new_stop == NewStop(position.type, call.close, call.atr) IN
    IF call.has_atr /\ StopImproves(position.type, new_stop, position.stop_loss)
    THEN [position |-> [position EXCEPT !.stop_loss = new_stop],
          sent |-> IF position.id # 0
                   THEN [order_id |-> position.id, new_stop_price |-> new_stop]
                   ELSE NoInstruction]
    ELSE [position |-> position, sent |-> NoInstruction]

UpdateTrailingStop ==
    /\ program = "trailing"
    /\ \E call \in TrailCalls :
         LET r == update_trailing_stop(trail_position, call) IN
         /\ trail_position' = r.position
         /\ trail_sent' = r.sent
         /\ trail_call' = call
    /\ UNCHANGED <<program, rmVars, esVars, next_order_id, histVars, btVars, wfVars,
                   rdVars, connVars>>

\* Calls of update_trailing_stop on one position.
TrailingNext == UpdateTrailingStop

InitBot == program = "bot" /\ InitObjects /\ InitBacktester /\ InitConnector
    /\ InitNoTrailing
InitApi == program = "api" /\ InitObjects /\ InitBacktester /\ InitConnector
    /\ InitNoTrailing
InitDay == program = "day" /\ InitObjects /\ InitBacktester /\ InitConnector
    /\ InitNoTrailing
InitBusy == program = "busy" /\ InitObjects /\ InitBacktester /\ InitConnector
    /\ InitNoTrailing
InitBacktest == program = "backtest" /\ InitObjects /\ InitBacktester /\ InitConnector
    /\ InitNoTrailing
InitWalkForward == program = "walkforward" /\ InitObjects /\ InitBacktester /\ InitConnector
    /\ InitNoTrailing
InitRegime == program = "regime" /\ InitObjects /\ InitBacktester /\ InitConnector
    /\ InitNoTrailing
InitConnectorProgram ==
    program = "connector" /\ InitObjects /\ InitBacktester /\ InitConnector
    /\ InitNoTrailing
InitTrailingProgram ==
    program = "trailing" /\ InitObjects /\ InitBacktester /\ InitConnector
    /\ InitTrailing

\* The bot's main loop; resume_trading is the operator's manual action.
BotNext ==
    /\ \/ trading_cycle
       \/ (program = "bot" /\ ResumeTrading)
    /\ UNCHANGED <<btVars, wfVars, rdVars, connVars, trailVars>>

\* A client of the RiskManager object.
ApiNext ==
    /\ program = "api"
    /\ \/ CanOpenPosition
       \/ OpenPosition
       \/ ClosePosition
       \/ ResumeTrading
    /\ UNCHANGED <<btVars, wfVars, rdVars, connVars, trailVars>>

\* A client that also calls reset_daily_metrics at the start of a trading day.
DayNext ==
    /\ program = "day"
    /\ \/ CanOpenPosition
       \/ OpenPosition
       \/ ClosePosition
       \/ ResumeTrading
       \/ ResetDailyMetrics
    /\ UNCHANGED <<btVars, wfVars, rdVars, connVars, trailVars>>

\* A client that registers positions and closes them break-even.
BusyNext ==
    /\ program = "busy"
    /\ \/ CanOpenPosition
       \/ OpenPosition
       \/ ClosePosition
    /\ UNCHANGED <<btVars, wfVars, rdVars, connVars, trailVars>>

\* A run of the Backtester.
BacktestNext ==
    \/ run_backtest
    \/ SimulateBar
    \/ FinishBacktest

\* A walk-forward analysis.
WalkForwardNext ==
    \/ walk_forward_analysis
    \/ WalkForwardIteration
    \/ SimulateBar
    \/ FinishBacktest
    \/ WalkForwardCollect

\* A call of detect_regime on a frame with the given latest indicators.
DetectRegime ==
    /\ program = "regime"
    /\ \E ind \in Indicators :
         /\ regime_input' = ind
         /\ regime_result' = detect_regime(ind)
    /\ UNCHANGED <<program, rmVars, esVars, next_order_id, histVars, btVars, wfVars,
                   connVars, trailVars>>

\* Calls of the MarketRegimeDetector.
RegimeNext == DetectRegime

Init == InitBot \/ InitApi \/ InitDay \/ InitBusy \/ InitBacktest \/ InitWalkForward \/ InitRegime
        \/ InitConnectorProgram \/ InitTrailingProgram
Next == BotNext \/ ApiNext \/ DayNext \/ BusyNext \/ BacktestNext \/ WalkForwardNext \/ RegimeNext
        \/ ConnectorNext \/ TrailingNext

SpecBot == InitBot /\ [][BotNext]_vars
SpecApi == InitApi /\ [][ApiNext]_vars
SpecDay == InitDay /\ [][DayNext]_vars
SpecBusy == InitBusy /\ [][BusyNext]_vars
SpecBacktest == InitBacktest /\ [][BacktestNext]_vars
SpecWalkForward == InitWalkForward /\ [][WalkForwardNext]_vars
SpecRegime == InitRegime /\ [][RegimeNext]_vars
SpecConnector == InitConnectorProgram /\ [][ConnectorNext]_vars
SpecTrailing == InitTrailingProgram /\ [][TrailingNext]_vars
\* walk_forward_analysis is one sequential call: it keeps running until it
\* returns.  The loop of run_backtest can take a step (SimulateBar while
\* bar_index < df_len, FinishBacktest after that) exactly when backtest_pc is
\* "loop", so weak fairness of that loop is written with this guard in the
\* place of ENABLED.
SpecWalkForwardFair ==
    /\ SpecWalkForward
    /\ WF_vars(walk_forward_analysis)
    /\ WF_vars(WalkForwardIteration)
    /\ WF_vars(WalkForwardCollect)
    /\ ([]<>(backtest_pc # "loop") \/ []<><<SimulateBar \/ FinishBacktest>>_vars)
Spec == Init /\ [][Next]_vars

(***************************************************************************)
(* Properties.                                                            *)
(***************************************************************************)

\* Sum of committed risk within capital * MAX_TOTAL_PORTFOLIO_RISK.
ExposureBound ==
    SumRisk(open_positions) <= current_capital * MAX_TOTAL_PORTFOLIO_RISK

\* The drawdown of the ledger in the next state.
LedgerDrawdownNext == <<peak_capital' - current_capital', peak_capital'>>

\* A step is a close_position / reset_daily_metrics call.
IsCloseStep == close_count' = close_count + 1
IsResetStep == reset_count' = reset_count + 1

\* Index of the first TRUE of a tuple of booleans that has one.
FirstTrue(fails) ==
    CHOOSE i \in 1..Len(fails) : fails[i] /\ \A j \in 1..(i - 1) : ~fails[j]

RECURSIVE SumPnl(_)
\* Sum of pnl over a trade log, as an exact fraction.
SumPnl(ts) ==
    IF ts = <<>> THEN <<0, 1>> ELSE RatAdd(Head(ts).pnl, SumPnl(Tail(ts)))

\* C1: the RiskManager's current_capital is always initial_capital plus the
\* sum of the pnl arguments of all close_position calls, and a run_backtest
\* that returns results returns a final_capital equal to the initial capital
\* plus the sum of pnl over the returned trade log.
C1_CapitalConservation ==
    /\ current_capital = initial_capital + pnl_sum
    /\ (backtest_pc = "done" /\ ~backtest_result.empty) =>
          backtest_result.final_capital =
              RatAdd(<<bt_initial_capital, 1>>, SumPnl(backtest_result.trades))

\* A backtest returned a log with a losing and a winning trade.
C1_Witness ==
    /\ backtest_pc = "done"
    /\ ~backtest_result.empty
    /\ \E i, j \in 1..Len(backtest_result.trades) :
          /\ backtest_result.trades[i].pnl[1] < 0
          /\ backtest_result.trades[j].pnl[1] > 0
    /\ backtest_result.final_capital # <<bt_initial_capital, 1>>

\* C2 as claimed: at every point the sum of risk_amount over open_positions is
\* at most current_capital * MAX_TOTAL_PORTFOLIO_RISK, positions being
\* registered only after approval and closed with arbitrary pnl.
C2_ExposureBoundAlways == ExposureBound

\* C2 as amended: the exposure bound holds right after every registration
\* that followed an approval, and every step that does not lower
\* current_capital preserves it (a close with a loss can break it).
C2_ExposureBoundAtRegistration ==
    [][ ( \/ Len(open_positions') > Len(open_positions)
          \/ (ExposureBound /\ current_capital' >= current_capital) )
        => ExposureBound' ]_vars

\* Two positions registered at the limit, after a winning close.
C2_Witness ==
    /\ Len(open_positions) >= 2
    /\ SumRisk(open_positions) = 2 * 10000000
    /\ pnl_sum > 0
    /\ ExposureBound

\* C3 as claimed: once HALTED every approval request fails, and the halt
\* reason reported stays the same until resume_trading, whatever happens in
\* between.
C3_SameHaltReasonUntilResume ==
    [][ trading_halted =>
          /\ \A r \in RiskAmounts :
               /\ ~can_open_position(r).allowed
               /\ can_open_position(r).reason = "Trading halted: " \o halt_reason
          /\ (trading_halted' => halt_reason' = halt_reason) ]_vars

\* The conditions of can_open_position in the order the claim gives them, and
\* in the order of the code; the reason each one reports.
ClaimedOrder(r) ==
    << <<trading_halted, "Trading halted: " \o halt_reason>>,
       <<consecutive_losses >= MAX_CONSECUTIVE_LOSSES, "Too many consecutive losses">>,
       <<daily_trade_count >= MAX_DAILY_TRADES, "Daily trade limit reached">>,
       <<DailyLossLimitHit, "Daily loss limit reached">>,
       <<Len(open_positions) >= MAX_CONCURRENT_TRADES, "Maximum concurrent trades reached">>,
       <<ExceedsPortfolioRisk(r), "Total portfolio risk exceeds limit">>,
       <<ExceedsPerTradeRisk(r), "Exceeds per-trade risk limit">> >>

CodeOrder(r) ==
    << <<trading_halted, "Trading halted: " \o halt_reason>>,
       <<ExceedsPerTradeRisk(r), "Exceeds per-trade risk limit">>,
       <<DailyLossLimitHit, "Daily loss limit reached">>,
       <<FracGE(LedgerDrawdown, MAX_DRAWDOWN), "Maximum drawdown reached">>,
       <<Len(open_positions) >= MAX_CONCURRENT_TRADES, "Maximum concurrent trades reached">>,
       <<consecutive_losses >= MAX_CONSECUTIVE_LOSSES, "Too many consecutive losses">>,
       <<ExceedsPortfolioRisk(r), "Total portfolio risk exceeds limit">>,
       <<daily_trade_count >= MAX_DAILY_TRADES, "Daily trade limit reached">> >>

FirstFailing(order) ==
    order[FirstTrue([i \in 1..Len(order) |-> order[i][1]])][2]

SomeFails(order) == \E i \in 1..Len(order) : order[i][1]

\* C4 as claimed: the reason returned is that of the first failing condition
\* in the order halted, consecutive losses, daily trade count, daily loss,
\* open-position count, total exposure, per-trade risk.
C4_ClaimedPrecedence ==
    \A r \in RiskAmounts :
        SomeFails(ClaimedOrder(r)) =>
            can_open_position(r).reason = FirstFailing(ClaimedOrder(r))

\* C4 as amended: the reason returned is that of the first failing condition
\* in the order halted, per-trade risk, daily loss, drawdown, open-position
\* count, consecutive losses, total exposure, daily trade count; the request
\* is allowed exactly when none fails.
C4_CodePrecedence ==
    \A r \in RiskAmounts :
        LET v == can_open_position(r) IN
        IF SomeFails(CodeOrder(r))
        THEN ~v.allowed /\ v.reason = FirstFailing(CodeOrder(r))
        ELSE v.allowed

\* A request was rejected for the daily loss while the loss streak and the
\* drawdown were over their limits too.
C4_Witness ==
    /\ trading_halted
    /\ halt_reason = "Daily loss limit reached"
    /\ consecutive_losses >= MAX_CONSECUTIVE_LOSSES
    /\ FracGE(LedgerDrawdown, MAX_DRAWDOWN)

C6_HaltOnClose ==
    [][ ( /\ IsCloseStep
          /\ \/ FracGE(LedgerDrawdownNext, MAX_DRAWDOWN)
             \/ consecutive_losses' >= MAX_CONSECUTIVE_LOSSES )
        => trading_halted' ]_vars

\* C7 as claimed: after every close_position call the recorded
\* current_drawdown equals (peak_capital - current_capital) / peak_capital of
\* the ledger the call leaves.
C7_DrawdownRecomputedOnClose ==
    [][ IsCloseStep => FracEq(current_drawdown', LedgerDrawdownNext) ]_vars

\* Frames and times a caller may hand to check_emergency_conditions.
AnyFrames == [has_atr : BOOLEAN, atr_spike : BOOLEAN, gap : BOOLEAN]

\* C8 as claimed: whenever the ledger's drawdown is at or above
\* HALT_ON_DRAWDOWN, check_emergency_conditions returns should_stop with the
\* drawdown reason, whether or not an approval request was made since the
\* last close.
C8_HardDrawdownCeiling ==
    FracGE(LedgerDrawdown, HALT_ON_DRAWDOWN) =>
        \A df \in AnyFrames, t \in Times :
            LET e == check_emergency_conditions(current_drawdown, api_error_count,
                                                last_price_update, 0, df, t) IN
            e.should_stop /\ e.reason = "Drawdown exceeded 15.0%"

\* C9: while HALTED every approval request is refused, and the only step
\* that leaves HALTED is resume_trading.
C9_HaltPersistence ==
    [][ trading_halted =>
          /\ \A r \in RiskAmounts : ~can_open_position(r).allowed
          /\ (~trading_halted' => resume_trading) ]_vars

\* Halted for API errors, and a later cycle with a successful fetch (which
\* resets the error count) left the halt in place.
C9_Witness ==
    /\ trading_halted
    /\ halt_reason = "Multiple API errors"
    /\ api_error_count = 0

\* C10 as claimed: reset_daily_metrics zeroes the daily P&L and trade counter
\* and, with the loss streak below its limit, leaves the manager not HALTED.
C10_DailyResetResumes ==
    [][ IsResetStep =>
          /\ daily_pnl' = 0
          /\ daily_trade_count' = 0
          /\ (consecutive_losses' < MAX_CONSECUTIVE_LOSSES => ~trading_halted') ]_vars

\* C10 as amended: reset_daily_metrics zeroes the daily P&L and the daily
\* trade counter and changes nothing else; a HALTED manager stays HALTED with
\* the same reason.
C10_DailyResetKeepsHalt ==
    [][ IsResetStep =>
          /\ daily_pnl' = 0
          /\ daily_trade_count' = 0
          /\ UNCHANGED <<trading_halted, halt_reason, current_capital, peak_capital,
                         consecutive_losses, open_positions, current_drawdown>> ]_vars

\* A day was started while halted for the daily loss, with a short loss streak.
C10_Witness ==
    /\ reset_count > 0
    /\ trading_halted
    /\ halt_reason = "Daily loss limit reached"
    /\ consecutive_losses < MAX_CONSECUTIVE_LOSSES
    /\ daily_pnl = 0
    /\ daily_trade_count = 0

\* C11: peak_capital never decreases; it changes only in a close_position
\* call, and only to the current_capital that call leaves, which is strictly
\* larger than the old peak.
C11_MonotonicPeak ==
    [][ /\ peak_capital' >= peak_capital
        /\ (peak_capital' # peak_capital =>
               /\ IsCloseStep
               /\ peak_capital' = current_capital'
               /\ peak_capital' > peak_capital) ]_vars

\* The peak was raised by a winning close and a later loss left capital below it.
C11_Witness ==
    /\ peak_capital > initial_capital
    /\ current_capital < peak_capital
    /\ close_count >= 2

\* A step is one iteration of the loop of run_backtest.
IsBarStep == backtest_pc = "loop" /\ bar_index' = bar_index + 1

\* The bar reaches the stop, or the take profit, of position p.
StopReached(p, b) ==
    IF p.type = "long" THEN b.low <= p.stop_loss ELSE b.high >= p.stop_loss
TargetReached(p, b) ==
    IF p.type = "long" THEN b.high >= p.take_profit_1 ELSE b.low <= p.take_profit_1

\* The iteration closed a position: it logged one more trade.
LoggedTrade == Len(trades') = Len(trades) + 1
LastTrade(ts) == ts[Len(ts)]

\* C12: for a position open when a bar is processed, the exit is the first
\* matching of stop loss, take profit, time exit: a reached stop exits with
\* reason stop_loss at the stop price even when the take profit is reached in
\* the same bar; otherwise a reached take profit exits at the take-profit
\* level; otherwise a position older than 48 bars exits at the bar close;
\* otherwise the position stays open.
C12_ExitPriority ==
    [][ (IsBarStep /\ positions # <<>>) =>
          LET p == positions[1]
              b == current_bar'
              aged == bar_index - p.entry_index > 48
          IN  IF StopReached(p, b)
              THEN /\ LoggedTrade
                   /\ LastTrade(trades').exit_reason = "stop_loss"
                   /\ LastTrade(trades').exit_price = p.stop_loss
              ELSE IF TargetReached(p, b)
              THEN /\ LoggedTrade
                   /\ LastTrade(trades').exit_reason = "take_profit"
                   /\ LastTrade(trades').exit_price = p.take_profit_1
              ELSE IF aged
              THEN /\ LoggedTrade
                   /\ LastTrade(trades').exit_reason = "time_exit"
                   /\ LastTrade(trades').exit_price = b.close
              ELSE trades' = trades /\ positions' = positions ]_vars

\* A position opened on an earlier bar was stopped out by a bar that also
\* reached its take profit.
C12_Witness ==
    /\ trades # <<>>
    /\ LastTrade(trades).exit_reason = "stop_loss"
    /\ LastTrade(trades).exit_index = bar_index - 1
    /\ LastTrade(trades).entry_index < LastTrade(trades).exit_index
    /\ LastTrade(trades).type = "long"
    /\ current_bar.high >= 200066

\* run_backtest has returned results.
BacktestReturned == backtest_pc = "done" /\ ~backtest_result.empty

\* C13 as claimed: when run_backtest returns, no position is open (one still
\* open after the last bar was force-closed into the trade log), so the last
\* equity value equals final_capital.
C13_EndOfDataForceClose ==
    BacktestReturned =>
        /\ positions = <<>>
        /\ backtest_result.equity_curve[Len(backtest_result.equity_curve)]
              = backtest_result.final_capital

\* C14 as claimed: the returned equity curve starts with the initial capital
\* and has exactly one entry per bar of the test series.
C14_OneEntryPerSeriesBar ==
    BacktestReturned =>
        /\ backtest_result.equity_curve[1] = <<bt_initial_capital, 1>>
        /\ Len(backtest_result.equity_curve) = df_len

\* C14 as amended: the curve starts with the initial capital; every simulated
\* bar (the bars after the 100 warm-up bars), with or without a signal,
\* appends one value, the realized capital plus the unrealized P&L of the
\* open positions at that bar's close; the returned curve has
\* len(test series) - 99 entries.
C14_OneEntryPerSimulatedBar ==
    [][ /\ IsBarStep =>
              /\ Len(equity_curve') = Len(equity_curve) + 1
              /\ equity_curve'[Len(equity_curve')] =
                    RatAdd(capital', IF positions' = <<>> THEN <<0, 1>>
                                     ELSE _calculate_unrealized_pnl(positions'[1], current_bar'))
        /\ (backtest_pc' = "done" /\ ~backtest_result'.empty) =>
              /\ backtest_result'.equity_curve[1] = <<bt_initial_capital, 1>>
              /\ Len(backtest_result'.equity_curve) = df_len' - (WARMUP_BARS - 1) ]_vars

\* A short run returned a curve with an entry that carries unrealized profit only.
C14_Witness ==
    /\ BacktestReturned
    /\ df_len = 103
    /\ backtest_result.trades = <<>>
    /\ \E i \in 1..Len(backtest_result.equity_curve) :
          backtest_result.equity_curve[i] # <<bt_initial_capital, 1>>

\* C15 as claimed: a signal whose stop-loss equals its entry price never
\* becomes an open position of the simulator nor a trade of its log.
C15_ZeroRiskSkipped ==
    /\ \A i \in 1..Len(positions) : positions[i].stop_loss # positions[i].entry_price
    /\ \A i \in 1..Len(trades) :
          ~(trades[i].exit_reason = "stop_loss" /\ trades[i].exit_price = trades[i].entry_price)

\* C16: at most one position is open at every point of a run, and an
\* iteration that starts with a position open opens no other, whatever
\* signals its bar carries.
C16_SinglePosition ==
    [][ /\ Len(positions') <= 1
        /\ (IsBarStep /\ positions # <<>>) => positions' \in {positions, <<>>} ]_vars

\* A bar with a long signal was processed while a position opened earlier
\* stayed open.
C16_Witness ==
    /\ Len(positions) = 1
    /\ current_bar.long_signal
    /\ positions[1].entry_index < bar_index - 1

\* C17: the test periods of the windows that walk_forward_analysis simulates
\* are pairwise disjoint as closed intervals, so that the inclusive filter of
\* run_backtest gives no bar timestamp to two windows.
C17_TestPeriodsDisjoint ==
    /\ \A i, j \in 1..Len(wf_results) :
          i < j => wf_results[i].test_end < wf_results[j].test_start
    /\ wf_pc = "window" =>
          /\ window.test_start <= window.test_end
          /\ \A i \in 1..Len(wf_results) : wf_results[i].test_end < window.test_start

\* An analysis ended with the results of two windows.
C17_Witness == wf_pc = "done" /\ Len(wf_results) = 2

\* C18 as claimed: the test period of every window but the first starts where
\* the test period of the window before it ended (current_date, at the time
\* the window is built), so no untested gap lies between two windows.
C18_TestPeriodsContiguous ==
    (wf_pc = "window" /\ current_date # WalkStartDate) =>
        window.test_start = current_date

\* A pass of the while loop enters the loop of run_backtest.
IsWindowStart == wf_pc = "loop" /\ wf_pc' = "window" /\ backtest_pc' = "loop"

C20_ApiErrorStreak ==
    [][ /\ api_error_count' = fail_streak'
        /\ (fail_streak' = fail_streak + 1 /\ fail_streak' >= API_ERROR_LIMIT) =>
              (trading_halted' /\ halt_reason' = "Multiple API errors")
        /\ (halt_reason' = "Multiple API errors" /\ halt_reason # "Multiple API errors") =>
              fail_streak' >= API_ERROR_LIMIT ]_vars

\* After a successful fetch, three failed fetches in a row halted trading.
C20_Witness ==
    /\ last_price_update
    /\ fail_streak = API_ERROR_LIMIT
    /\ trading_halted
    /\ halt_reason = "Multiple API errors"

\* A trading cycle whose data fetch failed (it called log_api_error).
IsFailedFetch == fail_streak' = fail_streak + 1
\* A trading cycle whose data fetch succeeded after failures (it called
\* reset_api_errors on a nonzero count).
IsFetchSuccessAfterFailure == fail_streak > 0 /\ fail_streak' = 0

\* C21 as claimed: log_api_error adds one to api_error_count, the lifetime
\* counter, and reset_api_errors leaves api_error_count unchanged (it resets
\* a separate consecutive counter only).
C21_LifetimeCounterSurvivesReset ==
    [][ /\ IsFailedFetch => api_error_count' = api_error_count + 1
        /\ IsFetchSuccessAfterFailure => api_error_count' = api_error_count ]_vars

\* C22 as claimed: api_error_count cannot grow without bound: a log_api_error
\* call that finds it at 150 or more resets it, leaving it at most 10.
C22_LifetimeAutoReset ==
    [][ (IsFailedFetch /\ api_error_count >= 150) => api_error_count' <= 10 ]_vars

\* current_time - last_price_update in whole seconds, as a caller may find it.
ElapsedSeconds == {0, 300, 301, 86399, 86410, 90000}

\* C23 as claimed: once a price update is recorded, check_emergency_conditions
\* returns should_stop for every current_time more than 300 seconds after
\* it, durations of more than a day included.
C23_StaleDataTrigger ==
    last_price_update =>
        \A elapsed \in ElapsedSeconds, df \in AnyFrames, t \in Times :
            elapsed > 300 =>
                check_emergency_conditions(current_drawdown, api_error_count,
                                           last_price_update, elapsed, df, t).should_stop

\* The order of the rules of detect_regime as claimed, and the condition of
\* each rule.
RegimeOrder == <<"STRONG_TREND", "WEAK_TREND", "BREAKOUT_PENDING",
                 "HIGH_VOLATILITY", "LOW_VOLATILITY">>
RuleMatches(label, ind) ==
    IF label = "STRONG_TREND"
    THEN FloatGT(ind.adx, ADX_STRONG_TREND_THRESHOLD) /\ ind.ema # "none"
    ELSE IF label = "WEAK_TREND"
    THEN FloatGT(ind.adx, ADX_WEAK_TREND_THRESHOLD) /\ ind.ema # "none"
    ELSE IF label = "BREAKOUT_PENDING"
    THEN /\ ScaledLT(ind.bb_width, ind.bb_width_avg, BB_WIDTH_BREAKOUT_MULTIPLIER)
         /\ ScaledLT(ind.atr, ind.atr_avg, ATR_LOW_VOLATILITY_MULTIPLIER)
    ELSE IF label = "HIGH_VOLATILITY"
    THEN ScaledGT(ind.atr, ind.atr_avg, ATR_HIGH_VOLATILITY_MULTIPLIER)
    ELSE IF label = "LOW_VOLATILITY"
    THEN ScaledLT(ind.bb_width, ind.bb_width_avg, BB_WIDTH_LOW_VOL_MULTIPLIER)
    ELSE FALSE

\* C24: detect_regime returns one of the six labels: the first label of the
\* fixed order whose rule matches the indicators, whatever later rules match
\* too, and RANGING when no rule matches.
C24_RegimePrecedence ==
    regime_result # NoneStr =>
        /\ regime_result \in Regimes
        /\ \/ /\ \A i \in 1..Len(RegimeOrder) : ~RuleMatches(RegimeOrder[i], regime_input)
              /\ regime_result = "RANGING"
           \/ \E i \in 1..Len(RegimeOrder) :
                /\ RuleMatches(RegimeOrder[i], regime_input)
                /\ \A j \in 1..(i - 1) : ~RuleMatches(RegimeOrder[j], regime_input)
                /\ regime_result = RegimeOrder[i]

\* A trend rule and the high-volatility rule matched: the trend label won.
C24_Witness ==
    /\ regime_result = "WEAK_TREND"
    /\ RuleMatches("HIGH_VOLATILITY", regime_input)

\* A step of the bot's main loop that is a trading cycle, not the operator's
\* resume_trading.
IsTradingCycle == program = "bot" /\ ~resume_trading

\* C25: select_strategy stands aside, with risk 0, exactly for
\* HIGH_VOLATILITY and returns one of the three strategies for every other
\* label; a trading cycle whose regime is HIGH_VOLATILITY leaves the open
\* positions, the orders placed and the halt state as they were.
C25_StandAside ==
    [][ /\ \A regime \in Regimes :
              LET s == select_strategy(regime) IN
              IF regime = "HIGH_VOLATILITY"
              THEN s.strategy = "stay_out" /\ s.risk = 0
              ELSE s.strategy \in {"trend_following", "mean_reversion", "grid_trading"}
        /\ (IsTradingCycle /\ cycle_regime' = "HIGH_VOLATILITY") =>
              /\ open_positions' = open_positions
              /\ daily_trade_count' = daily_trade_count
              /\ next_order_id' = next_order_id
              /\ trading_halted' = trading_halted
              /\ halt_reason' = halt_reason ]_vars

\* A high-volatility cycle ran with trading open and a position registered.
C25_Witness ==
    /\ cycle_regime = "HIGH_VOLATILITY"
    /\ ~trading_halted
    /\ Len(open_positions) = 1

\* C28 as claimed: a position registered by process_signal is closed once it
\* is no longer held at the broker: a trading cycle whose manage_positions
\* finds no EUR/CAD position at the broker removes the positions registered
\* before it from open_positions.
C28_ClosedWhenGoneAtBroker ==
    [][ (IsTradingCycle /\ broker_report' = "flat") =>
          \A i \in 1..Len(open_positions) :
              \A j \in 1..Len(open_positions') :
                  open_positions'[j].id # open_positions[i].id ]_vars

\* C26: a step that halts trading (or halts it again for another reason)
\* leaves the open positions, the capital, the peak capital, the daily P&L
\* and the counters of the RiskManager as they were; and a close_position
\* call made while halted still removes the position with the given id,
\* adds its pnl to the capital and the daily P&L, and leaves the halt on.
C26_CooperativeHalt ==
    [][ /\ (trading_halted' /\ (~trading_halted \/ halt_reason' # halt_reason)) =>
              UNCHANGED <<open_positions, initial_capital, current_capital,
                          peak_capital, daily_pnl, consecutive_losses,
                          daily_trade_count>>
        /\ (IsCloseStep /\ trading_halted) =>
              /\ current_capital' = current_capital + (pnl_sum' - pnl_sum)
              /\ daily_pnl' = daily_pnl + (pnl_sum' - pnl_sum)
              /\ \E id \in CloseIds : open_positions' = RemainingPositions(id)
              /\ trading_halted' /\ halt_reason' = halt_reason ]_vars

\* Halted by the drawdown check, which recorded the drawdown of that moment;
\* the ledger has moved since, and both registered positions are closed.
C26_Witness ==
    /\ trading_halted
    /\ halt_reason = "Maximum drawdown reached"
    /\ Norm(current_drawdown[1], current_drawdown[2])
          # Norm(LedgerDrawdown[1], LedgerDrawdown[2])
    /\ next_order_id = 3
    /\ open_positions = <<>>

\* C30 as claimed: an approval request made with the day's realized P&L
\* exactly at -(current_capital * MAX_DAILY_LOSS), trading not halted and the
\* per-trade check passed, is rejected for the daily loss limit.
C30_DailyLossBoundaryInclusive ==
    (/\ ~trading_halted
     /\ current_capital > 0
     /\ daily_pnl * 1000 = -(current_capital * MAX_DAILY_LOSS)) =>
        \A r \in RiskAmounts :
            ~ExceedsPerTradeRisk(r) =>
                /\ ~can_open_position(r).allowed
                /\ can_open_position(r).reason = "Daily loss limit reached"

\* C27: the metrics of a returned backtest hold no division error; the
\* profit factor is gross profit / gross loss when the gross loss is
\* positive, the float inf when it is 0 and the gross profit is positive, and
\* 0 when both are 0; with an empty trade list the win rate, the profit
\* factor, the Sharpe ratio and the maximum drawdown are 0.
C27_ProfitFactorSentinel ==
    BacktestReturned =>
        LET m == backtest_result.metrics
            ts == backtest_result.trades
            gp == GrossProfit(ts)
            gl == GrossLoss(ts)
        IN  /\ ~m.win_rate.error /\ ~m.profit_factor.error
            /\ gl[1] > 0 => m.profit_factor = Num(RatDiv(gp, gl))
            /\ (gl[1] = 0 /\ gp[1] > 0) => m.profit_factor = Inf
            /\ (gl[1] = 0 /\ gp[1] = 0) => m.profit_factor = Num(<<0, 1>>)
            /\ ts = <<>> =>
                  /\ m.win_rate = Num(<<0, 1>>)
                  /\ m.profit_factor = Num(<<0, 1>>)
                  /\ m.sharpe_ratio = Num(<<0, 1>>)
                  /\ m.max_drawdown = Num(<<0, 1>>)

\* A backtest returned with winning trades only: the profit factor is inf.
C27_Witness ==
    /\ BacktestReturned
    /\ Len(backtest_result.trades) = 2
    /\ LosingTrades(backtest_result.trades) = <<>>
    /\ backtest_result.metrics.profit_factor = Inf

\* C29 as claimed: a position opened on a bar is first checked for exit on
\* a later bar: every logged trade has its exit bar strictly after its entry
\* bar.
C29_ExitAfterEntryBar ==
    \A i \in 1..Len(trades) : trades[i].exit_index > trades[i].entry_index

\* The pnl argument of the close_position call of a close step.
ClosedPnl == pnl_sum' - pnl_sum

\* A step has the effect of resume_trading on the RiskManager.
IsResumeEffect ==
    /\ ~trading_halted'
    /\ halt_reason' = NoneStr
    /\ consecutive_losses' = 0
    /\ UNCHANGED <<initial_capital, current_capital, max_risk_per_trade,
                   open_positions, daily_pnl, peak_capital, current_drawdown,
                   daily_trade_count, close_count, reset_count>>

\* C31 as claimed: close_position resets consecutive_losses to 0 exactly when
\* the closed trade is a win (pnl > 0) and increments it by one exactly when
\* it is a loss (pnl < 0); apart from resume_trading no other operation
\* changes the counter.
C31_CounterResetOnWinOnly ==
    [][ /\ IsCloseStep =>
             /\ (consecutive_losses' = 0) <=> (ClosedPnl > 0)
             /\ (consecutive_losses' = consecutive_losses + 1) <=> (ClosedPnl < 0)
        /\ consecutive_losses' # consecutive_losses =>
             (IsCloseStep \/ IsResumeEffect) ]_vars

\* C31 as amended: close_position increments consecutive_losses by one
\* exactly when the closed trade is a loss (pnl < 0) and resets it to 0
\* otherwise, a break-even trade (pnl = 0) included; apart from
\* resume_trading no other operation changes the counter.
C31_CounterResetUnlessLoss ==
    [][ /\ IsCloseStep =>
             /\ (consecutive_losses' = 0) <=> (ClosedPnl >= 0)
             /\ (consecutive_losses' = consecutive_losses + 1) <=> (ClosedPnl < 0)
        /\ consecutive_losses' # consecutive_losses =>
             (IsCloseStep \/ IsResumeEffect) ]_vars

\* Three trades were closed, two of them losses of 1000 and one break-even,
\* and the counter stands at 1.
C31_Witness ==
    /\ close_count = 3
    /\ pnl_sum = -2000
    /\ consecutive_losses = 1

\* A pass of the while loop moved current_date forward.
IsMoveForward == wf_pc = "window" /\ wf_pc' = "loop"

\* C32: walk_forward_analysis terminates for positive train and test period
\* lengths: each pass of the loop that runs a window moves the window start
\* forward by (train + test) * 30 days, a window is run only if its test_end
\* does not pass the last bar, the loop is left as soon as the next window's
\* test_end would pass it (or the start has reached it), and the call
\* eventually returns.
C32_WalkForwardTerminates ==
    /\ [][ /\ IsMoveForward =>
                 current_date' =
                     current_date + (train_period + test_period) * DAYS_PER_MONTH
           /\ (wf_pc = "loop" /\ wf_pc' = "window") =>
                 /\ train_period > 0 /\ test_period > 0
                 /\ window'.train_start = current_date
                 /\ window'.test_end <= wf_end_date
           /\ (wf_pc = "loop" /\ wf_pc' = "done") =>
                 \/ current_date >= wf_end_date
                 \/ current_date + (train_period + test_period) * DAYS_PER_MONTH
                        > wf_end_date ]_vars
    /\ <>(wf_pc = "done")

\* The analysis returned after two windows, the second ending on the last bar.
C32_Witness ==
    /\ wf_pc = "done"
    /\ Len(wf_results) = 2
    /\ current_date = wf_end_date

\* What the positions registered so far, the request of the last trading
\* cycle and the strategies themselves show of the claim, the reason of a
\* rejected trend-following request left aside.
OnlyMeanReversionRegisters ==
    /\ \A i \in 1..Len(open_positions) :
          open_positions[i].strategy = "Mean Reversion"
    /\ select_strategy("STRONG_TREND").risk = TREND_FOLLOWING_RISK
    /\ cycle_request.strategy = "Trend Following" => ~cycle_request.allowed
    /\ select_strategy("LOW_VOLATILITY").strategy = "grid_trading"
    /\ SignalsOf("grid_trading") = {"none"}
    /\ \A e \in EntryData("grid_trading") : ~e.valid
    /\ cycle_request.strategy # "Grid Trading"
    /\ cycle_regime = "HIGH_VOLATILITY" => cycle_request = NoRequest

OpenIds == { open_positions[i].id : i \in 1..Len(open_positions) }

\* C34: close_position is not guarded by membership: for an id that matches
\* no open position the filter keeps every open position, and a call that
\* removes nothing still adds pnl to current_capital and daily_pnl, raises
\* the peak to a higher capital and updates the consecutive-loss counter.
C34_UnguardedClose ==
    [][ /\ \A id \in (1..(MaxOrders + 1)) \ OpenIds :
              RemainingPositions(id) = open_positions
        /\ (IsCloseStep /\ open_positions' = open_positions) =>
              /\ current_capital' = current_capital + ClosedPnl
              /\ daily_pnl' = daily_pnl + ClosedPnl
              /\ peak_capital' = IF current_capital' > peak_capital
                                 THEN current_capital' ELSE peak_capital
              /\ consecutive_losses' = IF ClosedPnl < 0
                                       THEN consecutive_losses + 1 ELSE 0 ]_vars

\* Two positions were registered and both are still open after two
\* close_position calls, a win and then a loss, that moved the ledger.
C34_Witness ==
    /\ next_order_id = 3
    /\ Len(open_positions) = 2
    /\ close_count = 2
    /\ pnl_sum = 1000
    /\ current_capital = initial_capital + 1000
    /\ daily_pnl = 1000
    /\ peak_capital = initial_capital + 2000
    /\ consecutive_losses = 1

\* The rejections of can_open_position that do not halt, and those that do.
SoftRejections ==
    {"Exceeds per-trade risk limit", "Maximum concurrent trades reached",
     "Total portfolio risk exceeds limit", "Daily trade limit reached"}
HaltingRejections ==
    {"Daily loss limit reached", "Maximum drawdown reached",
     "Too many consecutive losses"}

\* A step of a client that is a can_open_position call and nothing else.
IsApprovalRequest ==
    /\ program \in Clients
    /\ ~IsCloseStep
    /\ ~IsResetStep
    /\ next_order_id' = next_order_id
    /\ ~IsResumeEffect

\* C35: a can_open_position call rejected for per-trade risk, concurrent
\* positions, portfolio risk or the daily trade limit leaves trading enabled;
\* one rejected for daily loss, drawdown or consecutive losses leaves the
\* RiskManager halted; and no such call changes the capital, the peak
\* capital, the open positions, the daily P&L or a counter.
C35_ApprovalSideEffects ==
    [][ /\ \A r \in RiskAmounts :
              LET v == can_open_position(r) IN
              /\ v.reason \in SoftRejections =>
                    (~v.allowed /\ ~v.trading_halted /\ ~trading_halted
                     /\ v.halt_reason = halt_reason)
              /\ v.reason \in HaltingRejections =>
                    (~v.allowed /\ v.trading_halted)
        /\ IsApprovalRequest =>
              UNCHANGED <<initial_capital, current_capital, peak_capital,
                          open_positions, daily_pnl, consecutive_losses,
                          daily_trade_count, max_risk_per_trade>> ]_vars

\* The daily trade limit rejects the requests of a client that registered
\* MAX_DAILY_TRADES positions, and trading is still enabled.
C35_Witness ==
    /\ daily_trade_count = MAX_DAILY_TRADES
    /\ ~trading_halted
    /\ \A r \in RiskAmounts :
          can_open_position(r).reason = "Daily trade limit reached"

\* A step that takes the RiskManager out of the halt.
IsUnhalt == trading_halted /\ ~trading_halted'

\* C36: resume_trading clears the halt flag and reason and zeroes the
\* consecutive-loss counter but leaves capital, peak capital, daily P&L and
\* daily trade count untouched; a request halts for daily loss or drawdown
\* only on a ledger that is past that limit; hence, on a ledger still past
\* the daily-loss or drawdown limit, every request made right after the
\* resume that passes the per-trade check halts trading again.
C36_ResumeKeepsCauses ==
    [][ /\ IsUnhalt =>
              /\ halt_reason' = NoneStr
              /\ consecutive_losses' = 0
              /\ UNCHANGED <<initial_capital, current_capital, peak_capital,
                             daily_pnl, daily_trade_count, open_positions>>
              /\ (DailyLossLimitHit \/ MaxDrawdownReached) =>
                    \A r \in RiskAmounts :
                        LET v == can_open_position(r)' IN
                        ~ExceedsPerTradeRisk(r) =>
                            /\ ~v.allowed
                            /\ v.trading_halted
                            /\ v.halt_reason \in {"Daily loss limit reached",
                                                  "Maximum drawdown reached"}
        /\ (~trading_halted /\ trading_halted'
               /\ halt_reason' = "Daily loss limit reached") => DailyLossLimitHit
        /\ (~trading_halted /\ trading_halted'
               /\ halt_reason' = "Maximum drawdown reached") =>
              (MaxDrawdownReached /\ ~DailyLossLimitHit) ]_vars

\* After a new trading day began, trading is halted for drawdown with the
\* loss counter at zero although the last trade closed was a loss: the
\* counter was zeroed by resume_trading and a request halted trading after it.
C36_Witness ==
    /\ trading_halted
    /\ halt_reason = "Maximum drawdown reached"
    /\ consecutive_losses = 0
    /\ close_count = 1
    /\ pnl_sum = -300000
    /\ reset_count = 1
    /\ open_positions = <<>>

\* C37 as claimed: between two connect() calls that return True, reconnect()
\* makes at most max_reconnect_attempts connection attempts, counted across
\* its calls.
C37_ReconnectBudget == conn_attempts <= max_reconnect_attempts

\* C38: an update_trailing_stop call never lowers the stop of a long
\* position nor raises that of a short one; a call whose candidate stop is
\* not strictly better (or that has no ATR) leaves the position as it was
\* and sends no modify-stop instruction; and an instruction that is sent
\* carries the new stop of the position.
C38_TrailingStopTightens ==
    [][ LET new_stop ==
              NewStop(trail_position.type, trail_call'.close, trail_call'.atr)
            better ==
              /\ trail_call'.has_atr
              /\ new_stop # NaN
              /\ IF trail_position.type = "long"
                 THEN new_stop > trail_position.stop_loss
                 ELSE new_stop < trail_position.stop_loss
        IN  /\ trail_position'.type = trail_position.type
            /\ trail_position.type = "long" =>
                  trail_position'.stop_loss >= trail_position.stop_loss
            /\ trail_position.type = "short" =>
                  trail_position'.stop_loss <= trail_position.stop_loss
            /\ ~better =>
                  (trail_position' = trail_position /\ trail_sent' = NoInstruction)
            /\ trail_sent' # NoInstruction =>
                  /\ trail_sent'.new_stop_price = trail_position'.stop_loss
                  /\ trail_sent'.order_id = trail_position.id ]_vars

\* A long position's stop was raised to 1.4500 and the last call, whose
\* candidate 1.4480 is lower, left it there and sent nothing.
C38_Witness ==
    /\ program = "trailing"
    /\ trail_position.type = "long"
    /\ trail_position.id = 1
    /\ trail_position.stop_loss = 14500
    /\ trail_call = [has_atr |-> TRUE, close |-> 14480, atr |-> 0]
    /\ trail_sent = NoInstruction

\* C39: no position is held over more than 49 bars: a position still open
\* after a bar was processed was entered at most 48 bars before that bar;
\* every trade exits at most 49 bars after its entry; and a time_exit trade
\* exits exactly 49 bars after its entry, at the close of that bar.
C39_BoundedHoldingTime ==
    /\ \A i \in 1..Len(positions) :
          (bar_index - 1) - positions[i].entry_index <= TIME_EXIT_BARS
    /\ \A i \in 1..Len(trades) :
          LET t == trades[i]
              held == t.exit_index - t.entry_index
          IN  /\ held <= TIME_EXIT_BARS + 1
              /\ t.exit_reason = "time_exit" => held = TIME_EXIT_BARS + 1
              /\ (t.exit_reason = "time_exit" /\ t.exit_index = bar_index - 1) =>
                    t.exit_price = current_bar.close

\* The last bar processed closed, at its close, a position entered 49 bars
\* before it.
C39_Witness ==
    /\ backtest_pc = "loop"
    /\ positions = <<>>
    /\ trades # <<>>
    /\ LastTrade(trades).exit_reason = "time_exit"
    /\ LastTrade(trades).exit_index = bar_index - 1
    /\ LastTrade(trades).exit_index = LastTrade(trades).entry_index + TIME_EXIT_BARS + 1
    /\ LastTrade(trades).exit_price = current_bar.close

====
